---------------------------- MODULE Spec2Model ----------------------------
(***************************************************************************)
(* Turn-resolution engine of the UNO "No Mercy" card game, as implemented  *)
(* by uno_no_mercy_sim.py (scripted simulation), uno_no_mercy_playable.py  *)
(* (human + AI players) and uno_no_mercy_RL.py (learning agent), and of    *)
(* the classic game of uno_vanilla_playable.py.                            *)
(*                                                                         *)
(* Conventions.  Python's None is the string "None" for a colour or a      *)
(* pending draw type and the number 0 for a player id.  Number card values *)
(* 0..9 are the strings "0".."9", so that every card value is a string.    *)
(* Lists are sequences; Python index i is sequence index i + 1, and        *)
(* list.pop() takes the LAST element.                                      *)
(***************************************************************************)
EXTENDS Integers, Sequences, FiniteSets, TLC

VARIABLES
    variant,               \* engine: "sim", "playable", "rl" or "vanilla"
    players,               \* UnoGame.players: the ring, a list of Player
    deck,                  \* UnoGame.deck
    discard_pile,          \* UnoGame.discard_pile
    current_player_index,  \* UnoGame.current_player_index (0-based)
    direction,             \* UnoGame.direction: 1 or -1
    turn_count,            \* UnoGame.turn_count
    game_over,             \* UnoGame.game_over (sim: start_game's local)
    pending_draw,          \* UnoGame.pending_draw
    pending_draw_type,     \* UnoGame.pending_draw_type
    winner_id,             \* UnoGame.winner_id (0 is None)
    mercy_rule,            \* UnoGame.mercy_rule
    max_turns,             \* UnoGame.max_turns (sim only; 0 elsewhere)
    initial_size,          \* number of cards create_deck built
    error,                 \* the exception that ended the program, or "None"
    ev                     \* what the last turn did (the engine's log line)

vars == <<variant, players, deck, discard_pile, current_player_index,
          direction, turn_count, game_over, pending_draw, pending_draw_type,
          winner_id, mercy_rule, max_turns, initial_size, error, ev>>

-----------------------------------------------------------------------------
(* Bounds of the model *)

\* Turns explored per game in the engines that have no turn cap of their own.
MaxTurns == 4

\* Number of outcomes of random.shuffle considered at a recycle.
NumShuffles == 2

-----------------------------------------------------------------------------
(* Cards *)

NoPlayer == 0

MercyLimit == 25

RecycleThreshold == 5

Card(t, c, v) == [type |-> t, color |-> c, value |-> v]

NoCard == Card("none", "None", "None")

colors == <<"Red", "Blue", "Green", "Yellow">>

ColorSet == {colors[i] : i \in 1..Len(colors)}

NumberValue == <<"0", "1", "2", "3", "4", "5", "6", "7", "8", "9">>

penalties == [v \in {"Draw2", "Draw4", "Draw6", "Draw10"} |->
                CASE v = "Draw2" -> 2 [] v = "Draw4" -> 4
                  [] v = "Draw6" -> 6 [] v = "Draw10" -> 10]

\* penalties.get(value, 0)
penalty_of(v) == IF v \in DOMAIN penalties THEN penalties[v] ELSE 0

allowed_stacking(t) ==
    CASE t = "Draw2"  -> {"Draw2", "Draw4", "Draw6", "Draw10"}
      [] t = "Draw4"  -> {"Draw4", "Draw6", "Draw10"}
      [] t = "Draw6"  -> {"Draw6", "Draw10"}
      [] t = "Draw10" -> {"Draw10"}
      [] OTHER        -> {}

-----------------------------------------------------------------------------
(* Sequence helpers *)

Rep(x, n) == [i \in 1..n |-> x]

Reverse(s) == [i \in 1..Len(s) |-> s[Len(s) + 1 - i]]

Min2(a, b) == IF a < b THEN a ELSE b

\* the least element of a non-empty set of integers
MinOf(S) == CHOOSE i \in S : \A j \in S : i <= j

\* index of the first element of s equal to x, 0 if none
FirstIndex(s, x) ==
    LET at == {i \in 1..Len(s) : s[i] = x}
    IN  IF at = {} THEN 0 ELSE MinOf(at)

RemoveAt(s, i) == SubSeq(s, 1, i - 1) \o SubSeq(s, i + 1, Len(s))

\* s without the first occurrence of each element of xs (an element that
\* occurs k times in xs loses its first k occurrences)
RemoveEach(s, xs) ==
    LET taken(i) == Cardinality({j \in 1..(i - 1) : s[j] = s[i]})
                        < Cardinality({j \in 1..Len(xs) : xs[j] = s[i]})
        marked   == [i \in 1..Len(s) |-> IF taken(i) THEN NoCard ELSE s[i]]
    IN  SelectSeq(marked, LAMBDA c : c # NoCard)

RECURSIVE Flatten(_)
Flatten(ss) == IF ss = <<>> THEN <<>> ELSE Head(ss) \o Flatten(Tail(ss))

-----------------------------------------------------------------------------
(* create_deck *)

\* the number cards of one colour: `copies0` zeros, two of each of 1..9
NumberCards(c, copies0) ==
    Rep(Card("number", c, "0"), copies0)
    \o Flatten([n \in 1..9 |-> Rep(Card("number", c, NumberValue[n + 1]), 2)])

ActionCards(c) ==
    Rep(Card("action", c, "Skip"), 3)
    \o Rep(Card("action", c, "SkipAll"), 2)
    \o Rep(Card("action", c, "Reverse"), 3)
    \o Rep(Card("action", c, "Draw2"), 3)
    \o Rep(Card("action", c, "Draw4"), 2)
    \o Rep(Card("action", c, "DiscardColor"), 3)

WildCards ==
    Rep(Card("wild", "None", "ReverseDraw4"), 8)
    \o Rep(Card("wild", "None", "Draw6"), 4)
    \o Rep(Card("wild", "None", "Draw10"), 4)
    \o Rep(Card("wild", "None", "ColorRoulette"), 8)

\* uno_no_mercy_playable.py and uno_no_mercy_RL.py: two of every number
create_deck ==
    Flatten([i \in 1..Len(colors) |->
                NumberCards(colors[i], 2) \o ActionCards(colors[i])])
    \o WildCards

\* uno_no_mercy_sim.py: "if number != 0" appends the second copy
sim_create_deck ==
    Flatten([i \in 1..Len(colors) |->
                NumberCards(colors[i], 1) \o ActionCards(colors[i])])
    \o WildCards


-----------------------------------------------------------------------------
(* Player *)

Player(pid, human, rl) ==
    [id |-> pid, hand |-> <<>>, is_human |-> human, is_rl |-> rl]

\* Player.draw(deck, count): pops up to count cards off the end of the deck
draw(hand, dk, count) ==
    LET k     == IF count < 0 THEN 0 ELSE Min2(count, Len(dk))
        drawn == [i \in 1..k |-> dk[Len(dk) + 1 - i]]
    IN  [hand  |-> hand \o drawn,
         deck  |-> SubSeq(dk, 1, Len(dk) - k),
         drawn |-> drawn]

\* Player.play_card(card): pops the first hand card equal in type, colour
\* and value; None (NoCard) and an unchanged hand when there is none
play_card(hand, card) ==
    LET i == FirstIndex(hand, card)
    IN  IF i = 0 THEN [hand |-> hand, played |-> NoCard]
        ELSE [hand |-> RemoveAt(hand, i), played |-> hand[i]]

\* a filter that lets every card through
every_card_playable(card, top_card) == TRUE

\* the playable filter inside Player.find_best_card / has_playable_card
\* (playable and RL engines)
playable_filter(card, top_card) ==
    LET active_color == top_card.color
    IN  IF card.type = "wild" THEN TRUE
        ELSE IF active_color # "None"
             THEN card.color = active_color \/ card.value = top_card.value
             ELSE card.color = top_card.color \/ card.value = top_card.value

\* the playable_cards comprehension of the simulation's find_best_card
sim_playable_filter(card, top_card) ==
    LET is_wild_with_no_color ==
            top_card.type = "wild" /\ top_card.color = "None"
        active_color == top_card.color
    IN  \/ card.type = "wild"
        \/ is_wild_with_no_color
        \/ (active_color # "None"
            /\ (card.color = active_color \/ card.value = top_card.value))
        \/ (active_color = "None"
            /\ (card.color = top_card.color \/ card.value = top_card.value))

\* twice the score find_best_card gives a playable card (the source adds
\* 0.5 steps; doubled here to stay in the integers)
score(card, top_card, hand, n_non_wild) ==
    LET active_color == top_card.color
    IN  IF card.type = "wild"
        THEN (IF n_non_wild > 0 THEN 1 ELSE 2)
             - (IF card.value = "ColorRoulette" THEN 1 ELSE 0)
        ELSE (IF active_color # "None" /\ card.color = active_color
              THEN 20 ELSE 0)
             + (IF card.value = top_card.value THEN 10 ELSE 0)
             + (IF card.type = "action"
                THEN CASE card.value = "Skip" -> 6
                       [] card.value = "Reverse" -> 4
                       [] card.value = "DiscardColor" -> 4
                       [] card.value \in {"Draw2", "Draw4"} ->
                             (IF n_non_wild > 1 THEN 2 ELSE 6)
                       [] OTHER -> 0
                ELSE 0)
             + (IF card.type = "number" /\ card.value \in {"0", "7"}
                THEN (IF Len(hand) > 5 THEN 10 ELSE 4)
                ELSE 0)

\* the first card of the highest score among the hand indices `playable`,
\* NoCard when there is none
BestOf(hand, top_card, playable) ==
    LET n_non_wild == Cardinality({i \in playable : hand[i].type # "wild"})
        sc(i) == score(hand[i], top_card, hand, n_non_wild)
        best == {i \in playable : \A j \in playable : sc(j) <= sc(i)}
    IN  IF playable = {} THEN NoCard
        ELSE hand[CHOOSE i \in best : \A j \in best : i <= j]

find_best_card(hand, top_card) ==
    BestOf(hand, top_card,
           {i \in 1..Len(hand) : playable_filter(hand[i], top_card)})

sim_find_best_card(hand, top_card) ==
    BestOf(hand, top_card,
           {i \in 1..Len(hand) : sim_playable_filter(hand[i], top_card)})

has_playable_card(hand, top_card) ==
    \E i \in 1..Len(hand) : playable_filter(hand[i], top_card)

is_valid_choice(card, top_card) ==
    IF card.type = "wild" THEN TRUE
    ELSE IF top_card.type = "wild" /\ top_card.color = "None" THEN TRUE
    ELSE IF top_card.color # "None"
         THEN card.color = top_card.color
         ELSE card.color = top_card.color \/ card.value = top_card.value

\* a colour choice that leaves the card as it was
no_color_chosen(hand) == "None"

\* choose_color_ai: the colour most frequent among the hand's coloured
\* cards, the first counted on a tie, "Red" for none
choose_color_ai(hand) ==
    LET cnt(c)   == Cardinality({i \in 1..Len(hand) : hand[i].color = c})
        first(c) == CHOOSE i \in 1..Len(hand) :
                        /\ hand[i].color = c
                        /\ \A j \in 1..(i - 1) : hand[j].color # c
        present  == {c \in ColorSet : cnt(c) > 0}
        top      == {c \in present : \A d \in present : cnt(d) <= cnt(c)}
    IN  IF present = {} THEN "Red"
        ELSE CHOOSE c \in top : \A d \in top : first(c) <= first(d)

-----------------------------------------------------------------------------
(* UnoGame: the state as one record, so that a method is an operator from   *)
(* game to game.  Field ev is the record of what the turn did.              *)

Game ==
    [players |-> players, deck |-> deck, discard_pile |-> discard_pile,
     current_player_index |-> current_player_index, direction |-> direction,
     turn_count |-> turn_count, game_over |-> game_over,
     pending_draw |-> pending_draw, pending_draw_type |-> pending_draw_type,
     winner_id |-> winner_id, mercy_rule |-> mercy_rule,
     max_turns |-> max_turns, error |-> error, ev |-> ev]

NoRecycle == [did |-> FALSE, deck_before |-> <<>>, discard_before |-> <<>>,
              deck_after |-> <<>>, discard_after |-> <<>>]

\* what a rotation of the hands did: the hands by ring index before and
\* after it, and the direction of play at that moment
NoRotation == [did |-> FALSE, before |-> <<>>, after |-> <<>>, direction |-> 0]

\* an answer a prompt did not take: the answer, and the hands, the discard
\* pile, the direction and the pending draw when it was given and when the
\* prompt asked again
NoAnswer == -2

NoRefusal == [made |-> FALSE, choice |-> NoAnswer, before |-> <<>>,
              after |-> <<>>]

\* what a call of Player.draw was asked and gave: count, the cards it
\* returned, and the sizes of the deck and the discard pile when called
NoRequest == [n |-> 0, got |-> 0, deck |-> 0, discard |-> 0, made |-> FALSE]

Requested(g, n, d) ==
    [n |-> n, got |-> Len(d.drawn), deck |-> Len(g.deck),
     discard |-> Len(g.discard_pile), made |-> TRUE]

\* the record of a turn before anything happened in it
NewEvent(g) ==
    [actor |-> g.players[g.current_player_index + 1].id,
     kind |-> "normal", played |-> NoCard, drew |-> 0, removed |-> NoPlayer,
     pre_pending |-> g.pending_draw, pre_type |-> g.pending_draw_type,
     pre_index |-> g.current_player_index, recycle |-> NoRecycle,
     request |-> NoRequest, rotation |-> NoRotation, mercy_hand |-> -1,
     refusal |-> NoRefusal, pre_direction |-> g.direction,
     pre_top |-> IF g.discard_pile = <<>> THEN NoCard
                 ELSE g.discard_pile[Len(g.discard_pile)],
     pre_hands |-> [k \in 1..Len(g.players) |-> g.players[k].hand],
     effects |-> 0, hand_effects |-> 0]

InitEvent ==
    [actor |-> NoPlayer, kind |-> "init", played |-> NoCard, drew |-> 0,
     removed |-> NoPlayer, pre_pending |-> 0, pre_type |-> "None",
     pre_index |-> 0, recycle |-> NoRecycle, request |-> NoRequest,
     rotation |-> NoRotation, mercy_hand |-> -1, refusal |-> NoRefusal,
     pre_direction |-> 1, pre_top |-> NoCard, pre_hands |-> <<>>,
     effects |-> 0, hand_effects |-> 0]

\* get_top_card (the discard pile is never empty once the game is built)
get_top_card(g) ==
    IF g.discard_pile = <<>> THEN NoCard
    ELSE g.discard_pile[Len(g.discard_pile)]

\* 0-based index of the player with this id in the ring, -1 if removed
IndexOfId(ps, pid) ==
    IF \E i \in 1..Len(ps) : ps[i].id = pid
    THEN (CHOOSE i \in 1..Len(ps) : ps[i].id = pid) - 1
    ELSE -1

HandOfId(g, pid) == g.players[IndexOfId(g.players, pid) + 1].hand

SetHand(g, i, h) == [g EXCEPT !.players[i + 1].hand = h]

\* random.shuffle: outcome k of the bounded set of permutations considered
\* (k even: rotated left by k/2; k odd: the same, reversed)
shuffle_deck(s, k) ==
    LET n   == Len(s)
        r   == IF n = 0 THEN 0 ELSE (k \div 2) % n
        rot == [i \in 1..n |-> s[((i - 1 + r) % n) + 1]]
    IN  IF k % 2 = 0 THEN rot ELSE Reverse(rot)

\* check_recycle_deck (playable, RL) and check_and_recycle_deck (sim):
\* self.deck = self.discard_pile replaces the deck by the discard pile
\* without its top card
check_recycle_deck(g, k) ==
    IF Len(g.deck) < RecycleThreshold
    THEN LET n    == Len(g.discard_pile)
             rest == IF n = 0 THEN <<>> ELSE SubSeq(g.discard_pile, 1, n - 1)
             top  == IF n = 0 THEN <<>> ELSE <<g.discard_pile[n]>>
             new  == shuffle_deck(rest, k)
         IN  [g EXCEPT !.deck = new, !.discard_pile = top,
                       !.ev.recycle = [did |-> TRUE,
                                       deck_before |-> g.deck,
                                       discard_before |-> g.discard_pile,
                                       deck_after |-> new,
                                       discard_after |-> top]]
    ELSE g

advance_turn(g) ==
    [g EXCEPT !.current_player_index =
                  (g.current_player_index + g.direction) % Len(g.players),
              !.turn_count = g.turn_count + 1]

update_pending_draw(g, value) ==
    [g EXCEPT !.pending_draw = g.pending_draw + penalty_of(value),
              !.pending_draw_type = value]

\* a pending draw started with the amount alone
start_pending_without_type(g, value) ==
    IF g.pending_draw = 0
    THEN [g EXCEPT !.pending_draw = penalties[value]]
    ELSE g

\* "if not self.pending_draw: start one" of handle_card_effects
start_pending(g, value) ==
    IF g.pending_draw = 0
    THEN [g EXCEPT !.pending_draw = penalties[value],
                   !.pending_draw_type = value]
    ELSE g

\* the ColorRoulette loop: the player at index i pops cards until one of
\* the colour shows or the deck is empty
color_roulette(g, i, color) ==
    LET n    == Len(g.deck)
        hits == {j \in 1..n : g.deck[n + 1 - j].color = color}
        k    == IF hits = {} THEN n
                ELSE CHOOSE j \in hits : \A h \in hits : j <= h
        d    == draw(g.players[i + 1].hand, g.deck, k)
    IN  [SetHand(g, i, d.hand) EXCEPT !.deck = d.deck]

\* the ReverseDraw4 branch; target_idx is computed by the caller
reverse_draw4(g, target_idx) ==
    LET d == draw(g.players[target_idx + 1].hand, g.deck, 4)
    IN  [SetHand(g, target_idx, d.hand) EXCEPT
            !.deck = d.deck, !.direction = -1 * g.direction,
            !.ev.request = Requested(g, 4, d)]

\* a DiscardColor that takes the cards out of the hand and loses them
discard_color_loses_cards(g, card) ==
    LET i    == g.current_player_index
        hand == g.players[i + 1].hand
    IN  SetHand(g, i, SelectSeq(hand, LAMBDA c : c.color # card.color))

\* the DiscardColor branch
discard_color(g, card) ==
    LET i       == g.current_player_index
        hand    == g.players[i + 1].hand
        discard == SelectSeq(hand, LAMBDA c : c.color = card.color)
        keep    == SelectSeq(hand, LAMBDA c : c.color # card.color)
    IN  [SetHand(g, i, keep) EXCEPT
            !.discard_pile = g.discard_pile \o discard]

\* the dispatch of handle_card_effects; rd4_target is the ring index the
\* engine computes for ReverseDraw4
card_effects(g0, card, rd4_target) ==
    LET g == IF card = NoCard THEN g0
             ELSE [g0 EXCEPT !.ev.effects = @ + 1]
        n == Len(g.players)
        i == g.current_player_index
    IN  IF card.type = "action"
        THEN CASE card.value = "Skip" ->
                    [g EXCEPT !.current_player_index = (i + g.direction) % n]
               [] card.value = "SkipAll" ->
                    [g EXCEPT !.current_player_index = (i - g.direction) % n]
               [] card.value = "Reverse" ->
                    [g EXCEPT !.direction = -1 * g.direction]
               [] card.value = "Draw2" -> start_pending(g, "Draw2")
               [] card.value = "Draw4" -> start_pending(g, "Draw4")
               [] card.value = "DiscardColor" -> discard_color(g, card)
               [] OTHER -> g
        ELSE IF card.type = "wild"
        THEN CASE card.value = "ReverseDraw4" ->
                    reverse_draw4(g, rd4_target)
               [] card.value = "Draw6"  -> start_pending(g, "Draw6")
               [] card.value = "Draw10" -> start_pending(g, "Draw10")
               [] card.value = "ColorRoulette" ->
                    color_roulette(g, (i + g.direction) % n, card.color)
               [] OTHER -> g
        ELSE g

\* handle_card_effects of the playable and RL engines
handle_card_effects(g, card) ==
    card_effects(g, card,
                 (g.current_player_index - g.direction) % Len(g.players))

\* handle_card_effects of the simulation
sim_handle_card_effects(g, card) ==
    card_effects(g, card,
                 IF g.direction > 0
                 THEN (g.current_player_index - g.direction) % Len(g.players)
                 ELSE (g.current_player_index + 1) % Len(g.players))

\* a rotation against the direction of play
switch_hands_backwards(g) ==
    LET n     == Len(g.players)
        hands == [i \in 1..n |-> g.players[i].hand]
        new   == [i \in 1..n |-> hands[((i - 1 + g.direction) % n) + 1]]
    IN  IF n < 2 THEN g
        ELSE [g EXCEPT !.players =
                           [i \in 1..n |-> [g.players[i] EXCEPT !.hand = new[i]]],
                       !.ev.rotation = [did |-> TRUE, before |-> hands,
                                        after |-> new,
                                        direction |-> g.direction]]

\* a rotation after which the first player keeps the old hand as well
switch_hands_keep_first(g) ==
    LET n     == Len(g.players)
        hands == [i \in 1..n |-> g.players[i].hand]
        new   == [i \in 1..n |->
                    IF i = 1 THEN hands[1] \o hands[((-g.direction) % n) + 1]
                    ELSE hands[((i - 1 - g.direction) % n) + 1]]
    IN  IF n < 2 THEN g
        ELSE [g EXCEPT !.players =
                           [i \in 1..n |-> [g.players[i] EXCEPT !.hand = new[i]]],
                       !.ev.rotation = [did |-> TRUE, before |-> hands,
                                        after |-> new,
                                        direction |-> g.direction]]

\* switch_hands_cycle / switch_hands_in_cycle
switch_hands_cycle(g) ==
    LET n     == Len(g.players)
        hands == [i \in 1..n |-> g.players[i].hand]
        new   == [i \in 1..n |-> hands[((i - 1 - g.direction) % n) + 1]]
    IN  IF n < 2 THEN g
        ELSE [g EXCEPT !.players =
                           [i \in 1..n |-> [g.players[i] EXCEPT !.hand = new[i]]],
                       !.ev.rotation = [did |-> TRUE, before |-> hands,
                                        after |-> new,
                                        direction |-> g.direction]]

\* swap the hands of the players at 0-based ring indices i and j
SwapHands(g, i, j) ==
    [g EXCEPT !.players[i + 1].hand = g.players[j + 1].hand,
              !.players[j + 1].hand = g.players[i + 1].hand]

\* 0-based ring index of min(others, key=len(hand)): the first opponent
\* holding the fewest cards
FewestOther(g, pid) ==
    LET others == {i \in 1..Len(g.players) : g.players[i].id # pid}
        least  == {i \in others : \A j \in others :
                        Len(g.players[i].hand) <= Len(g.players[j].hand)}
    IN  (CHOOSE i \in least : \A j \in least : i <= j) - 1

\* the AI branch of switch_hands_choice; also the simulation's
\* switch_hands_with_choice and both branches of the RL engine's
ai_switch_hands(g, pid) ==
    IF Len(g.players) < 2 THEN g
    ELSE LET me == IndexOfId(g.players, pid)
             t  == FewestOther(g, pid)
         IN  IF Len(g.players[t + 1].hand) >= Len(g.players[me + 1].hand)
             THEN g
             ELSE SwapHands(g, me, t)

\* switch_hands_choice of the playable engine: a human answers 's' (swap =
\* -1) or picks the swap-th of the other players; an AI swaps with the
\* opponent holding the fewest cards when that is fewer than its own
switch_hands_choice(g, pid, swap) ==
    LET me == IndexOfId(g.players, pid)
    IN  IF Len(g.players) < 2 THEN g
        ELSE IF g.players[me + 1].is_human
        THEN IF swap = -1 THEN g
             ELSE SwapHands(g, me, IF swap < me THEN swap ELSE swap + 1)
        ELSE ai_switch_hands(g, pid)

\* a mercy rule that announces the elimination and leaves the ring alone
check_winner_keeps_player(g, pid) ==
    LET hand == HandOfId(g, pid)
    IN  IF Len(hand) = 0
        THEN [g   |-> [g EXCEPT !.winner_id = pid, !.game_over = TRUE],
              ret |-> TRUE]
        ELSE IF g.mercy_rule /\ Len(hand) > MercyLimit
        THEN [g |-> [g EXCEPT !.ev.removed = pid], ret |-> FALSE]
        ELSE [g |-> g, ret |-> FALSE]

\* check_winner(player): [g, ret]
check_winner(g0, pid) ==
    LET hand == HandOfId(g0, pid)
        g    == [g0 EXCEPT !.ev.mercy_hand = Len(hand)]
    IN  IF Len(hand) = 0
        THEN [g   |-> [g EXCEPT !.winner_id = pid, !.game_over = TRUE],
              ret |-> TRUE]
        ELSE IF g.mercy_rule /\ Len(hand) > MercyLimit
        THEN LET ps == SelectSeq(g.players, LAMBDA p : p.id # pid)
                 g1 == [g EXCEPT !.players = ps,
                                 !.current_player_index =
                                     g.current_player_index % Len(ps),
                                 !.ev.removed = pid]
             IN  IF Len(ps) = 1
                 THEN [g   |-> [g1 EXCEPT !.winner_id = ps[1].id,
                                          !.game_over = TRUE],
                       ret |-> TRUE]
                 ELSE [g |-> g1, ret |-> FALSE]
        ELSE [g |-> g, ret |-> FALSE]

-----------------------------------------------------------------------------
(* Turns of the playable and RL engines.  inp is what the outside supplies  *)
(* in the turn: shuffle (the outcome of random.shuffle), choice (a human's  *)
(* or the agent's card index, -1 for draw), color (index of the colour      *)
(* chosen for a wild), yn (play the card just drawn?), swap (a human's      *)
(* answer to the value-7 prompt).                                           *)

\* append a played card to the discard pile with the colour chosen for it
Commit(g, i, hand, played, color) ==
    LET c == IF played.type = "wild"
             THEN [played EXCEPT !.color = color] ELSE played
    IN  [g |-> [SetHand(g, i, hand) EXCEPT
                    !.discard_pile = Append(g.discard_pile, c),
                    !.ev.played = c],
         played |-> c]

is_stackable(c, pending_type) ==
    /\ \/ (c.type = "action" /\ c.value \in {"Draw2", "Draw4"})
       \/ (c.type = "wild" /\ c.value \in {"Draw6", "Draw10"})
    /\ c.value \in allowed_stacking(pending_type)

stackable_cards(hand, pending_type) ==
    SelectSeq(hand, LAMBDA c : is_stackable(c, pending_type))

\* a forced draw that leaves the penalty for the next player as well
draw_pending_keeps_penalty(g, i) ==
    LET d == draw(g.players[i + 1].hand, g.deck, g.pending_draw)
    IN  [SetHand(g, i, d.hand) EXCEPT
            !.deck = d.deck,
            !.ev.kind = "forced", !.ev.drew = Len(d.drawn),
            !.ev.request = Requested(g, g.pending_draw, d)]

\* the forced draw of a pending penalty: draw it, clear it
draw_pending(g, i) ==
    LET d == draw(g.players[i + 1].hand, g.deck, g.pending_draw)
    IN  [SetHand(g, i, d.hand) EXCEPT
            !.deck = d.deck, !.pending_draw = 0,
            !.pending_draw_type = "None",
            !.ev.kind = "forced", !.ev.drew = Len(d.drawn),
            !.ev.request = Requested(g, g.pending_draw, d)]

\* the AI branch of handle_pending_draw: stack stackable[0]
ai_stack(g, i, stackable) ==
    LET hand == g.players[i + 1].hand
        pc   == play_card(hand, stackable[1])
        c    == Commit(g, i, pc.hand, stackable[1], choose_color_ai(pc.hand))
    IN  update_pending_draw([c.g EXCEPT !.ev.kind = "stack"], c.played.value)

\* handle_human_stack_choice: 'd' (choice = -1) or the choice-th stackable
Snapshot(g) ==
    <<[k \in 1..Len(g.players) |-> g.players[k].hand], g.discard_pile,
      g.direction, g.pending_draw, g.pending_draw_type>>

\* a pass of a prompt's loop with an answer that is not taken
ask_again_drops_card(g, choice) ==
    LET i    == g.current_player_index
        hand == g.players[i + 1].hand
        k    == IF choice + 1 \in 1..Len(hand) THEN choice + 1 ELSE Len(hand)
    IN  [SetHand(g, i, RemoveAt(hand, k)) EXCEPT
            !.discard_pile = Append(g.discard_pile, hand[k])]

\* a pass of the loop of get_human_choice, of handle_human_stack_choice or
\* of the classic handle_human_turn with an answer that is not taken: a
\* message is printed and the question is asked again
ask_again(g, choice) == g

\* the prompt is answered first with inp.refused, if any, then with
\* inp.choice
prompt(g, inp) ==
    IF inp.refused = NoAnswer THEN g
    ELSE LET a == ask_again(g, inp.refused)
         IN  [a EXCEPT !.ev.refusal =
                 [made |-> TRUE, choice |-> inp.refused,
                  before |-> Snapshot(g), after |-> Snapshot(a)]]

handle_human_stack_choice(g1, i, stackable, inp) ==
    LET g    == prompt(g1, inp)
        hand == g.players[i + 1].hand
    IN  IF inp.choice = -1
        THEN LET d == draw(hand, g.deck, g.pending_draw)
             IN  [SetHand(g, i, d.hand) EXCEPT
                     !.deck = d.deck, !.pending_draw = 0,
                     !.ev.kind = "decline", !.ev.drew = Len(d.drawn),
                     !.ev.request = Requested(g, g.pending_draw, d)]
        ELSE LET card == stackable[inp.choice + 1]
                 pc   == play_card(hand, card)
                 c    == Commit(g, i, pc.hand, pc.played,
                                colors[inp.color + 1])
             IN  [c.g EXCEPT !.ev.kind = "stack"]

\* handle_pending_draw of the playable engine
handle_pending_draw(g, inp) ==
    LET i         == g.current_player_index
        player    == g.players[i + 1]
        stackable == stackable_cards(player.hand, g.pending_draw_type)
    IN  IF stackable # <<>>
        THEN IF player.is_human
             THEN advance_turn(handle_human_stack_choice(g, i, stackable, inp))
             ELSE advance_turn(ai_stack(g, i, stackable))
        ELSE advance_turn(draw_pending(g, i))

\* handle_pending_draw of the RL engine: the agent's card index is taken
\* only if it is in range and names a stackable card, and then
\* player.play_card, which RLAgent does not define, raises
rl_handle_pending_draw(g, inp) ==
    LET i         == g.current_player_index
        player    == g.players[i + 1]
        hand      == player.hand
        stackable == stackable_cards(hand, g.pending_draw_type)
    IN  IF stackable # <<>>
        THEN IF player.is_rl
             THEN IF /\ 0 <= inp.choice /\ inp.choice < Len(hand)
                     /\ is_stackable(hand[inp.choice + 1], g.pending_draw_type)
                  THEN [g EXCEPT !.error = "AttributeError"]
                  ELSE advance_turn([g EXCEPT !.ev.kind = "pass"])
             ELSE advance_turn(ai_stack(g, i, stackable))
        ELSE advance_turn(draw_pending(g, i))

\* handle_ai_turn: [g, played]
handle_ai_turn(g, top_card) ==
    LET i    == g.current_player_index
        hand == g.players[i + 1].hand
        best == find_best_card(hand, top_card)
    IN  IF best # NoCard
        THEN LET pc == play_card(hand, best)
             IN  Commit(g, i, pc.hand, pc.played, choose_color_ai(pc.hand))
        ELSE LET d  == draw(hand, g.deck, 1)
                 g1 == [SetHand(g, i, d.hand) EXCEPT
                           !.deck = d.deck, !.ev.drew = Len(d.drawn),
                    !.ev.request = Requested(g, 1, d)]
             IN  IF d.drawn # <<>> /\ is_valid_choice(d.drawn[1], top_card)
                 THEN LET pc == play_card(d.hand, d.drawn[1])
                      IN  Commit(g1, i, pc.hand, pc.played,
                                 choose_color_ai(pc.hand))
                 ELSE [g |-> g1, played |-> NoCard]

\* draw_and_play: draw one card; if it is valid and the human answers 'y',
\* play it and dispatch its effects here
draw_and_play(g, top_card, inp) ==
    LET i    == g.current_player_index
        hand == g.players[i + 1].hand
        d    == draw(hand, g.deck, 1)
        g1   == [SetHand(g, i, d.hand) EXCEPT
                    !.deck = d.deck, !.ev.drew = Len(d.drawn),
                    !.ev.request = Requested(g, 1, d)]
    IN  IF d.drawn # <<>> /\ is_valid_choice(d.drawn[1], top_card) /\ inp.yn
        THEN LET pc == play_card(d.hand, d.drawn[1])
                 c  == Commit(g1, i, pc.hand, pc.played, colors[inp.color + 1])
             IN  [g |-> handle_card_effects(c.g, c.played),
                  played |-> c.played]
        ELSE [g |-> g1, played |-> NoCard]

\* handle_no_playable: the same steps as draw_and_play
handle_no_playable(g, top_card, inp) == draw_and_play(g, top_card, inp)

\* handle_human_turn: [g, played]; the value of draw_and_play is dropped
handle_human_turn(g1, top_card, inp) ==
    LET i    == g1.current_player_index
        hand == g1.players[i + 1].hand
        g    == IF has_playable_card(hand, top_card) THEN prompt(g1, inp)
                ELSE g1
    IN  IF has_playable_card(hand, top_card)
        THEN IF inp.choice = -1
             THEN [g |-> draw_and_play(g, top_card, inp).g, played |-> NoCard]
             ELSE LET pc == play_card(hand, hand[inp.choice + 1])
                  IN  Commit(g, i, pc.hand, pc.played, colors[inp.color + 1])
        ELSE handle_no_playable(g, top_card, inp)

\* handle_rl_turn: [g, played].  The agent answers -1 (player.draw raises),
\* an index in range (player.is_valid_choice raises) or one out of range
\* (nothing is played)
handle_rl_turn(g, top_card, inp) ==
    LET hand == g.players[g.current_player_index + 1].hand
    IN  IF inp.choice = -1 \/ (0 <= inp.choice /\ inp.choice < Len(hand))
        THEN [g |-> [g EXCEPT !.error = "AttributeError"], played |-> NoCard]
        ELSE [g |-> g, played |-> NoCard]

\* the value-0 and value-7 hand effects that play_turn adds for a number;
\* g7 is the game after the engine's value-7 exchange
number_effects(g, played, g7) ==
    IF played.type = "number"
    THEN IF played.value = "0"
         THEN [switch_hands_cycle(g) EXCEPT !.ev.hand_effects = @ + 1]
         ELSE IF played.value = "7" THEN [g7 EXCEPT !.ev.hand_effects = @ + 1]
         ELSE g
    ELSE g

\* play_turn of the playable engine; ret is its return value
play_turn(g0, inp) ==
    LET finish(w) ==
            IF w.ret THEN w ELSE [g |-> advance_turn(w.g), ret |-> FALSE]
        effects(player, r, e) ==
            finish(check_winner(
                IF r.played # NoCard
                THEN number_effects(e, r.played,
                         switch_hands_choice(e, player.id, inp.swap))
                ELSE r.g,
                player.id))
        normal(player, r) ==
            effects(player, r, handle_card_effects(r.g, r.played))
        turn(g, player, top_card) ==
            IF g.pending_draw > 0
            THEN [g |-> handle_pending_draw(g, inp), ret |-> FALSE]
            ELSE normal(player,
                        IF player.is_human
                        THEN handle_human_turn(g, top_card, inp)
                        ELSE handle_ai_turn(g, top_card))
        start(g) ==
            turn(g, g.players[g.current_player_index + 1], get_top_card(g))
    IN  start(check_recycle_deck([g0 EXCEPT !.ev = NewEvent(g0)],
                                 inp.shuffle))

\* play_turn of the RL engine
rl_play_turn(g0, inp) ==
    LET finish(r, w) ==
            IF r.g.error # "None" THEN [g |-> r.g, ret |-> FALSE]
            ELSE IF w.ret THEN w
            ELSE [g |-> advance_turn(w.g), ret |-> FALSE]
        effects(player, r, e) ==
            finish(r, check_winner(
                          IF r.played # NoCard
                          THEN number_effects(e, r.played,
                                              ai_switch_hands(e, player.id))
                          ELSE r.g,
                          player.id))
        normal(player, r) ==
            effects(player, r, handle_card_effects(r.g, r.played))
        turn(g, player, top_card) ==
            IF g.pending_draw > 0
            THEN [g |-> rl_handle_pending_draw(g, inp), ret |-> FALSE]
            ELSE normal(player,
                        IF player.is_rl
                        THEN handle_rl_turn(g, top_card, inp)
                        ELSE handle_ai_turn(g, top_card))
        start(g) ==
            turn(g, g.players[g.current_player_index + 1], get_top_card(g))
    IN  start(check_recycle_deck([g0 EXCEPT !.ev = NewEvent(g0)],
                                 inp.shuffle))

\* one iteration of the loop of train_rl_agent: the learning agent's turn
\* is handle_rl_turn and check_winner alone, any other player's turn is
\* play_turn
train_rl_agent(g0, inp) ==
    LET done(r) ==
            IF r.g.error # "None" THEN r.g
            ELSE check_winner(r.g, r.g.players[r.g.current_player_index + 1].id).g
        agent(g) == done(handle_rl_turn(g, get_top_card(g), inp))
    IN  IF g0.players[g0.current_player_index + 1].is_rl
        THEN agent([g0 EXCEPT !.ev = NewEvent(g0)])
        ELSE rl_play_turn(g0, inp).g

-----------------------------------------------------------------------------
(* The simulation engine *)

\* the mercy step with the pointer left where the pop found it, also when
\* that is past the end of the shrunk list
sim_mercy_keeps_index(g, pid) ==
    LET hand == HandOfId(g, pid)
        i    == g.current_player_index
    IN  IF g.mercy_rule /\ Len(hand) >= MercyLimit
        THEN [g EXCEPT !.players = RemoveAt(g.players, i + 1),
                       !.ev.removed = g.players[i + 1].id]
        ELSE [g EXCEPT !.current_player_index =
                           (i + g.direction) % Len(g.players)]

\* the mercy step of the simulation's play_turn: pop the player at
\* current_player_index when the acting player holds MercyLimit cards or
\* more, otherwise advance the ring pointer
sim_mercy_or_advance(g0, pid) ==
    LET hand == HandOfId(g0, pid)
        g    == [g0 EXCEPT !.ev.mercy_hand = Len(hand)]
        i    == g.current_player_index
    IN  IF g.mercy_rule /\ Len(hand) >= MercyLimit
        THEN LET ps == RemoveAt(g.players, i + 1)
             IN  [g EXCEPT !.players = ps,
                           !.current_player_index =
                               IF i >= Len(ps) THEN 0 ELSE i,
                           !.ev.removed = g.players[i + 1].id]
        ELSE [g EXCEPT !.current_player_index =
                           (i + g.direction) % Len(g.players)]

\* play_turn of the simulation; ret is its return value
sim_play_turn(g) ==
    LET i      == g.current_player_index
        player == g.players[i + 1]
        hand   == player.hand
        counted(won, g2) ==
            IF won
            THEN [g |-> [g2 EXCEPT !.turn_count = g2.turn_count + 1,
                                   !.winner_id = player.id],
                  ret |-> TRUE]
            ELSE [g |-> [g2 EXCEPT !.turn_count = g2.turn_count + 1],
                  ret |-> FALSE]
        finish(g1) ==
            counted(Len(HandOfId(g1, player.id)) = 0,
                    sim_mercy_or_advance(g1, player.id))
        effects(c, e) ==
            number_effects(e, c.played, ai_switch_hands(e, player.id))
        played(c) == effects(c, sim_handle_card_effects(c.g, c.played))
        play(pc) ==
            played(Commit(g, i, pc.hand, pc.played, choose_color_ai(pc.hand)))
        drawn(d) ==
            [SetHand(g, i, d.hand) EXCEPT
                !.deck = d.deck, !.ev.drew = Len(d.drawn),
                !.ev.request = Requested(g, 1, d)]
        normal(best) ==
            finish(IF best # NoCard THEN play(play_card(hand, best))
                   ELSE drawn(draw(hand, g.deck, 1)))
        stack(stackable) ==
            IF stackable # <<>>
            THEN [g |-> advance_turn(ai_stack(g, i, stackable)), ret |-> FALSE]
            ELSE [g |-> advance_turn(draw_pending(g, i)), ret |-> FALSE]
    IN  IF g.pending_draw > 0
        THEN stack(stackable_cards(hand, g.pending_draw_type))
        ELSE normal(sim_find_best_card(hand, get_top_card(g)))

\* an iteration of the loop that leaves the turn counter where it was
sim_start_game_step_uncounted(g0, k) ==
    LET over(r) == [r.g EXCEPT !.game_over = r.ret,
                               !.turn_count = g0.turn_count]
    IN  over(sim_play_turn(
                 check_recycle_deck([g0 EXCEPT !.ev = NewEvent(g0)], k)))

\* one iteration of the while loop of the simulation's start_game
sim_start_game_step(g0, k) ==
    LET over(r) == [r.g EXCEPT !.game_over = r.ret]
    IN  over(sim_play_turn(
                 check_recycle_deck([g0 EXCEPT !.ev = NewEvent(g0)], k)))

-----------------------------------------------------------------------------
(* The classic engine, uno_vanilla_playable.py.  Its Card has a colour      *)
(* ("Wild" for a wild card) and a value and no type: the type field is      *)
(* "None".  It keeps no turn counter: turn_count counts the iterations of   *)
(* start_game's loop.                                                       *)

vanilla_Card(c, v) == Card("None", c, v)

is_wild(card) == card.color = "Wild"

is_special(card) ==
    card.value \in {"Skip", "Reverse", "Draw2", "Wild", "Wild Draw4"}

\* per colour 0..9, 1..9, then Skip, Reverse, Draw2 twice over; then four
\* times a Wild and a Wild Draw4
vanilla_create_deck ==
    LET numbers  == NumberValue \o SubSeq(NumberValue, 2, 10)
        specials == <<"Skip", "Reverse", "Draw2", "Skip", "Reverse", "Draw2">>
    IN  Flatten([i \in 1..Len(colors) |->
                    [j \in 1..Len(numbers) |->
                        vanilla_Card(colors[i], numbers[j])]
                    \o [j \in 1..Len(specials) |->
                        vanilla_Card(colors[i], specials[j])]])
        \o Flatten([i \in 1..4 |-> <<vanilla_Card("Wild", "Wild"),
                                     vanilla_Card("Wild", "Wild Draw4")>>])

can_play(card, top_card) ==
    \/ is_wild(card)
    \/ card.color = top_card.color
    \/ card.value = top_card.value

\* find_playable_cards, as the sequence indices of the playable hand cards
find_playable_cards(hand, top_card) ==
    {i \in 1..Len(hand) : can_play(hand[i], top_card)}

\* replenish_deck: self.deck = self.discard_pile replaces the deck
replenish_deck(g, k) ==
    IF Len(g.deck) < 4
    THEN LET n    == Len(g.discard_pile)
             rest == SubSeq(g.discard_pile, 1, n - 1)
             top  == <<g.discard_pile[n]>>
             new  == shuffle_deck(rest, k)
         IN  [g EXCEPT !.deck = new, !.discard_pile = top,
                       !.ev.recycle = [did |-> TRUE,
                                       deck_before |-> g.deck,
                                       discard_before |-> g.discard_pile,
                                       deck_after |-> new,
                                       discard_after |-> top]]
    ELSE g

next_player(g) ==
    [g EXCEPT !.current_player_index =
                  (g.current_player_index + g.direction) % Len(g.players)]

vanilla_handle_pending_draw(g, i) ==
    LET d == draw(g.players[i + 1].hand, g.deck, g.pending_draw)
    IN  next_player([SetHand(g, i, d.hand) EXCEPT
                        !.deck = d.deck, !.pending_draw = 0,
                        !.ev.kind = "forced", !.ev.drew = Len(d.drawn),
                        !.ev.request = Requested(g, g.pending_draw, d)])

\* player.draw(self.deck, 1)[0] of handle_human_draw and handle_ai_turn:
\* indexing the empty list of an empty deck raises IndexError.  A playable
\* drawn card is played when `take` holds.
draw_one(g, i, top_card, take) ==
    LET d == draw(g.players[i + 1].hand, g.deck, 1)
        h == [SetHand(g, i, d.hand) EXCEPT
                 !.deck = d.deck, !.ev.drew = Len(d.drawn),
                 !.ev.request = Requested(g, 1, d)]
    IN  IF d.drawn = <<>>
        THEN [g |-> [h EXCEPT !.error = "IndexError"], played |-> NoCard]
        ELSE IF can_play(d.drawn[1], top_card) /\ take
        THEN [g |-> SetHand(h, i, g.players[i + 1].hand),
              played |-> d.drawn[1]]
        ELSE [g |-> h, played |-> NoCard]

handle_human_draw(g, i, top_card, inp) == draw_one(g, i, top_card, inp.yn)

\* inp.choice: -1 for 'd', else the 0-based index of a playable card
vanilla_handle_human_turn(g1, i, playable_cards, top_card, inp) ==
    LET hand == g1.players[i + 1].hand
        g    == IF playable_cards # {} THEN prompt(g1, inp) ELSE g1
    IN  IF playable_cards # {} /\ inp.choice # -1
        THEN [g |-> SetHand(g, i, RemoveAt(hand, inp.choice + 1)),
              played |-> hand[inp.choice + 1]]
        ELSE handle_human_draw(g, i, top_card, inp)

\* the first playable card that is not wild, else the first playable card
vanilla_handle_ai_turn(g, i, playable_cards, top_card) ==
    LET hand     == g.players[i + 1].hand
        non_wild == {j \in playable_cards : ~is_wild(hand[j])}
        j        == IF non_wild # {} THEN MinOf(non_wild)
                    ELSE MinOf(playable_cards)
    IN  IF playable_cards # {}
        THEN [g |-> SetHand(g, i, RemoveAt(hand, j)), played |-> hand[j]]
        ELSE draw_one(g, i, top_card, TRUE)

\* choose_color: sets the colour of the wild card on top of the discard
\* pile; a human picks it, the AI takes the colour it holds most of (the
\* first counted on a tie) and random.choice when it holds none
choose_color(g, inp) ==
    LET n       == Len(g.discard_pile)
        current == g.players[g.current_player_index + 1]
        hand    == current.hand
        cnt(c)   == Cardinality({i \in 1..Len(hand) : hand[i].color = c})
        first(c) == CHOOSE i \in 1..Len(hand) :
                        /\ hand[i].color = c
                        /\ \A j \in 1..(i - 1) : hand[j].color # c
        present  == {c \in ColorSet : cnt(c) > 0}
        most     == {c \in present : \A d \in present : cnt(d) <= cnt(c)}
        chosen   == IF current.is_human \/ present = {}
                    THEN colors[inp.color + 1]
                    ELSE CHOOSE c \in most : \A d \in most : first(c) <= first(d)
    IN  IF g.discard_pile[n].color # "Wild" THEN g
        ELSE [g EXCEPT !.discard_pile[n].color = chosen]

handle_card_effect(g0, card, inp) ==
    LET g == [g0 EXCEPT !.ev.effects = @ + 1]
    IN
    CASE card.value = "Skip" -> next_player(next_player(g))
      [] card.value = "Reverse" ->
            LET r == [g EXCEPT !.direction = -g.direction]
            IN  IF Len(g.players) = 2 THEN next_player(r) ELSE r
      [] card.value = "Draw2" -> [g EXCEPT !.pending_draw = 2]
      [] card.value = "Wild Draw4" ->
            LET p == [g EXCEPT !.pending_draw = 4]
            IN  IF is_wild(card) THEN choose_color(p, inp) ELSE p
      [] OTHER -> IF is_wild(card) THEN choose_color(g, inp) ELSE g

vanilla_play_turn(g0, inp) ==
    LET finish(i, e) ==
            IF e.players[i + 1].hand = <<>>
            THEN [e EXCEPT !.game_over = TRUE,
                           !.winner_id = e.players[i + 1].id]
            ELSE next_player(e)
        taken(i, t) ==
            IF t.g.error # "None" THEN t.g
            ELSE IF t.played = NoCard THEN next_player(t.g)
            ELSE finish(i, handle_card_effect(
                               [t.g EXCEPT !.discard_pile = Append(@, t.played),
                                           !.ev.played = t.played],
                               t.played, inp))
        choose(g, i, top_card, playable_cards) ==
            taken(i, IF g.players[i + 1].is_human
                     THEN vanilla_handle_human_turn(g, i, playable_cards,
                                                    top_card, inp)
                     ELSE vanilla_handle_ai_turn(g, i, playable_cards,
                                                 top_card))
        turn(g, i, top_card) ==
            IF g.pending_draw > 0 THEN vanilla_handle_pending_draw(g, i)
            ELSE choose(g, i, top_card,
                        find_playable_cards(g.players[i + 1].hand, top_card))
        start(g) == turn(g, g.current_player_index, get_top_card(g))
    IN  start(replenish_deck([g0 EXCEPT !.ev = NewEvent(g0),
                                        !.turn_count = g0.turn_count + 1],
                             inp.shuffle))

-----------------------------------------------------------------------------
(* Construction.  A deal is the outcome of the constructor's shuffle: the   *)
(* cards named in hands / start / draws are where the deal puts them, and   *)
(* every other card of create_deck follows in the order it was built.      *)

R(v)  == Card("number", "Red", v)
B(v)  == Card("number", "Blue", v)
G(v)  == Card("number", "Green", v)
Y(v)  == Card("number", "Yellow", v)
A(c, v) == Card("action", c, v)
W(v)  == Card("wild", "None", v)

V(c, v) == vanilla_Card(c, v)

DeckOf(v) ==
    CASE v = "sim"     -> sim_create_deck
      [] v = "vanilla" -> vanilla_create_deck
      [] OTHER         -> create_deck

\* the order in which the constructor pops the shuffled deck: each player's
\* m cards, the start card, then the draw pile from its top
RECURSIVE PopHands(_, _, _)
PopHands(hands, rest, m) ==
    IF hands = <<>> THEN [pop |-> <<>>, rest |-> rest]
    ELSE LET need == m - Len(Head(hands))
             more == PopHands(Tail(hands),
                              SubSeq(rest, need + 1, Len(rest)), m)
         IN  [pop  |-> Head(hands) \o SubSeq(rest, 1, need) \o more.pop,
              rest |-> more.rest]

PopOrder(sc) ==
    LET crafted == Flatten(sc.hands) \o sc.start \o sc.draws
        rest    == RemoveEach(DeckOf(sc.variant), crafted)
        h       == PopHands(sc.hands, rest, sc.m)
    IN  h.pop \o sc.start \o sc.draws \o h.rest

\* the deck after shuffle_deck in the constructor
ShuffledDeck(sc) == Reverse(PopOrder(sc))

\* deal_initial_cards: every player in turn draws m cards.  RLAgent defines
\* __init__, get_action and update_model only: player.draw on the agent
\* raises AttributeError and the deal stops there.
RECURSIVE deal_initial_cards(_, _, _)
deal_initial_cards(ps, dk, m) ==
    IF ps = <<>> THEN [players |-> <<>>, deck |-> dk, error |-> "None"]
    ELSE IF Head(ps).is_rl
    THEN [players |-> ps, deck |-> dk, error |-> "AttributeError"]
    ELSE LET d    == draw(Head(ps).hand, dk, m)
             more == deal_initial_cards(Tail(ps), d.deck, m)
         IN  [players |-> <<[Head(ps) EXCEPT !.hand = d.hand]>> \o more.players,
              deck    |-> more.deck,
              error   |-> more.error]

\* UnoGame.__init__
NewGame(sc) ==
    LET n     == Len(sc.hands)
        ps    == [i \in 1..n |-> Player(i, i \in sc.humans, i = sc.rl)]
        dealt == deal_initial_cards(ps, ShuffledDeck(sc), sc.m)
        d     == IF dealt.error = "None" THEN draw(<<>>, dealt.deck, 1)
                 ELSE [deck |-> dealt.deck, drawn |-> <<>>]
    IN  [players |-> dealt.players, deck |-> d.deck, discard_pile |-> d.drawn,
         error |-> dealt.error,
         current_player_index |-> 0, direction |-> 1, turn_count |-> 0,
         game_over |-> FALSE, pending_draw |-> 0,
         pending_draw_type |-> "None", winner_id |-> NoPlayer,
         mercy_rule |-> sc.mercy, max_turns |-> sc.k, ev |-> InitEvent]

\* the constructor's search for a start card: a special card popped goes
\* back under the deck; popping an empty deck raises IndexError, and a deck
\* of special cards only is searched for ever ("NoReturn")
RECURSIVE start_card(_, _)
start_card(dk, tries) ==
    IF dk = <<>> THEN [deck |-> dk, discard |-> <<>>, error |-> "IndexError"]
    ELSE IF tries = 0 THEN [deck |-> dk, discard |-> <<>>, error |-> "NoReturn"]
    ELSE LET c    == dk[Len(dk)]
             rest == SubSeq(dk, 1, Len(dk) - 1)
         IN  IF ~is_special(c)
             THEN [deck |-> rest, discard |-> <<c>>, error |-> "None"]
             ELSE start_card(<<c>> \o rest, tries - 1)

\* UnoGame.__init__ of uno_vanilla_playable.py: 7 cards each
vanilla_NewGame(sc) ==
    LET n     == Len(sc.hands)
        ps    == [i \in 1..n |-> Player(i, i \in sc.humans, FALSE)]
        dealt == deal_initial_cards(ps, ShuffledDeck(sc), 7)
        s     == start_card(dealt.deck, Len(dealt.deck))
    IN  [players |-> dealt.players, deck |-> s.deck, discard_pile |-> s.discard,
         error |-> s.error,
         current_player_index |-> 0, direction |-> 1, turn_count |-> 0,
         game_over |-> FALSE, pending_draw |-> 0,
         pending_draw_type |-> "None", winner_id |-> NoPlayer,
         mercy_rule |-> FALSE, max_turns |-> 0, ev |-> InitEvent]

-----------------------------------------------------------------------------
(* The games explored: constructor arguments and the outcome of the         *)
(* constructor's shuffle.                                                   *)

Scenario(v, m, hands, start, draws, humans, rl, mercy) ==
    [variant |-> v, m |-> m, hands |-> hands, start |-> start,
     draws |-> draws, humans |-> humans, rl |-> rl, mercy |-> mercy,
     k |-> IF v = "sim" THEN MaxTurns + 2 ELSE 0]

\* two players exchange Draw2 cards; the first player's last card is a stack
DuelHands ==
    <<  <<A("Red", "Draw2"), A("Blue", "Draw2")>>,
        <<A("Green", "Draw2"), W("Draw10")>>  >>

\* three players, the second holds one card of every draw value
StackHands ==
    <<  <<A("Red", "Draw2"), R("3"), R("4")>>,
        <<A("Blue", "Draw4"), W("Draw10"), A("Green", "Draw2")>>,
        <<A("Yellow", "Draw2"), W("Draw6"), Y("9")>>  >>

\* 26 cards each; the first player holds only red cards (a crafted Skip,
\* then the first 25 cards create_deck builds)
MercyHands(n) == [i \in 1..n |-> IF i = 1 THEN <<A("Red", "Skip")>> ELSE <<>>]

\* 26 cards each; the first player holds a Reverse, the last one no red
\* card and no Reverse
ReverseMercyHands ==
    <<  <<A("Red", "Reverse")>>,
        <<>>,
        NumberCards("Green", 0) \o SubSeq(NumberCards("Yellow", 0), 1, 8)  >>

\* three players, the first holds a SkipAll, a Reverse and a ReverseDraw4
ActionHands ==
    <<  <<A("Red", "SkipAll"), A("Red", "Reverse"), W("ReverseDraw4")>>,
        <<R("1"), R("2"), B("1")>>,
        <<R("6"), R("8"), B("2")>>  >>

\* three players, the first, a human, holds no card that goes on the start
\* card and draws an action card that does
DrawnHands ==
    <<  <<B("1"), B("2")>>,
        <<G("1"), G("2")>>,
        <<Y("1"), Y("2")>>  >>

\* three players; the first plays the last cards of the hand
LastCardHands(last) ==
    <<  last, <<R("1")>>, <<R("2")>>  >>

\* 25 cards each; the first player's only playable card is a Draw2, the
\* second holds no card that stacks
PenaltyHands ==
    <<  <<A("Red", "Draw2")>>
            \o SelectSeq(NumberCards("Blue", 0), LAMBDA c : c.value # "5")
            \o SubSeq(NumberCards("Yellow", 0), 11, 18),
        NumberCards("Green", 0) \o SubSeq(NumberCards("Yellow", 0), 1, 7)  >>

\* three players: the first plays a SkipAll and a number, the second then
\* plays a 7 holding more cards than the first, the third a 7 after it
SevenHands ==
    <<  <<A("Red", "SkipAll"), R("1"), B("9")>>,
        <<R("7"), G("2"), G("3")>>,
        <<Y("7"), Y("2"), Y("3")>>  >>

\* nearly the whole deck is dealt: the draw pile starts below the recycle
\* threshold
FullDeal(v) == IF v = "sim" THEN 80 ELSE 82

\* all but 7 cards are dealt; the first player holds the four Draw10 and
\* otherwise no wild, no red card and no 5, the second player no Draw10
ShortDeckCards(v) ==
    SelectSeq(DeckOf(v),
              LAMBDA c : c.type # "wild" /\ c.color # "Red" /\ c.value # "5")

ShortDeckHands(v) ==
    <<  Rep(W("Draw10"), 4) \o SubSeq(ShortDeckCards(v), 1, FullDeal(v) - 6),
        <<>>  >>

\* all but 5 cards are dealt, the draw pile ends with ColorRoulette cards;
\* the first player holds a ColorRoulette and otherwise no wild, no red
\* card and no 5
RouletteHands(v) ==
    <<  <<W("ColorRoulette")>> \o SubSeq(ShortDeckCards(v), 1, FullDeal(v) - 2),
        <<>>  >>

\* classic engine, three players: the first holds one card of every effect
ClassicHands ==
    <<  <<V("Red", "Skip"), V("Red", "Reverse"), V("Red", "Draw2"),
          V("Wild", "Wild"), V("Wild", "Wild Draw4"), V("Red", "1"),
          V("Blue", "5")>>,
        <<V("Wild", "Wild"), V("Wild", "Wild Draw4"), V("Wild", "Wild"),
          V("Wild", "Wild Draw4"), V("Wild", "Wild"), V("Wild", "Wild Draw4"),
          V("Green", "7")>>,
        <<>>  >>

\* classic engine, two players: the first AI player plays a Reverse
ClassicDuelHands ==
    <<  <<V("Red", "Reverse"), V("Blue", "Reverse"), V("Blue", "1")>>,
        <<V("Green", "7"), V("Green", "8"), V("Yellow", "8")>>  >>

\* classic engine, fifteen players: 105 of the 108 cards are dealt, and the
\* first player holds no red card, no 5 and no wild card
CrowdHands ==
    [i \in 1..15 |->
        IF i = 1
        THEN <<V("Blue", "1"), V("Blue", "1"), V("Blue", "2"), V("Blue", "2"),
               V("Blue", "3"), V("Blue", "3"), V("Blue", "4")>>
        ELSE <<>>]

VanillaScenarios ==
    {Scenario("vanilla", 7, ClassicHands, <<V("Red", "5")>>, <<>>, h,
              NoPlayer, FALSE) : h \in {{}, {1}, {1, 2}}}
    \cup {Scenario("vanilla", 7, ClassicDuelHands, <<V("Red", "5")>>,
                   <<V("Yellow", "1"), V("Yellow", "5")>>, h, NoPlayer, FALSE) :
            h \in {{}, {2}}}
    \cup {Scenario("vanilla", 7, CrowdHands, <<V("Red", "5")>>, <<>>, h,
                   NoPlayer, FALSE) : h \in {{}, {1}}}

Scenarios ==
    VanillaScenarios
    \cup
    {Scenario(v, 2, DuelHands, <<R("5")>>, <<>>, {}, NoPlayer, TRUE) :
        v \in {"sim", "playable", "rl"}}
    \cup {Scenario("playable", 2, DuelHands, <<R("5")>>, <<>>, {2}, NoPlayer, TRUE),
          Scenario("rl", 2, DuelHands, <<R("5")>>, <<>>, {}, 2, TRUE)}
    \cup {Scenario("playable", 3, StackHands, <<R("5")>>, <<>>, h, NoPlayer, TRUE) :
        h \in {{2}, {2, 3}}}
    \cup {Scenario("rl", 3, StackHands, <<R("5")>>, <<>>, {}, NoPlayer, TRUE)}
    \cup {Scenario(v, 26, ReverseMercyHands, <<A("Blue", "Reverse")>>,
                   <<Y("9")>>, {}, NoPlayer, TRUE) :
        v \in {"sim", "playable", "rl"}}
    \cup {Scenario(v, 3, ActionHands, <<R("5")>>, <<>>, {}, NoPlayer, TRUE) :
        v \in {"sim", "rl"}}
    \cup {Scenario("playable", 3, ActionHands, <<R("5")>>, <<>>, {1}, NoPlayer,
                   TRUE)}
    \cup {Scenario(v, 4, [ActionHands EXCEPT ![1] = @ \o <<Y("9")>>],
                   <<R("5")>>, <<>>, {}, NoPlayer, TRUE) :
        v \in {"sim", "playable"}}
    \cup {Scenario("playable", 2, DrawnHands, <<R("5")>>, <<c>>, {1},
                   NoPlayer, TRUE) :
        c \in {A("Red", "Skip"), A("Red", "SkipAll"), W("ReverseDraw4"),
               W("ColorRoulette"), A("Red", "DiscardColor")}}
    \cup {Scenario("playable", 2, DrawnHands, <<R("5")>>, <<c>>, h,
                   NoPlayer, TRUE) :
        c \in {R("0"), R("7"), A("Red", "Draw2")}, h \in {{}, {1}}}
    \cup {Scenario(v, 3, SevenHands, <<R("5")>>, <<>>, {}, NoPlayer, TRUE) :
        v \in {"sim", "playable", "rl"}}
    \cup {Scenario(v, 3, [SevenHands EXCEPT ![1] = <<R("7"), R("1"), B("9")>>],
                   <<R("5")>>, <<>>, {}, NoPlayer, TRUE) :
        v \in {"sim", "playable", "rl"}}
    \cup {Scenario("playable", 3, SevenHands, <<R("5")>>, <<>>, {2}, NoPlayer,
                   TRUE),
          Scenario("playable", 3, SevenHands, <<R("5")>>, <<R("0")>>, {1},
                   NoPlayer, TRUE)}
    \cup {Scenario(v, Len(last), LastCardHands(last), <<R("5")>>, <<>>, {},
                   NoPlayer, TRUE) :
        v \in {"sim", "playable"},
        last \in {<<R("0")>>, <<R("7")>>, <<A("Red", "DiscardColor"), R("3")>>}}
    \cup {Scenario(v, 25, PenaltyHands, <<R("5")>>, <<>>, {}, NoPlayer, TRUE) :
        v \in {"sim", "playable", "rl"}}
    \cup {Scenario(v, 4, <<<<A("Red", "DiscardColor"), R("1"), R("2"), B("3")>>,
                           <<>>, <<>>>>,
                   <<R("5")>>, <<>>, {}, NoPlayer, TRUE) :
        v \in {"sim", "playable"}}
    \cup {Scenario(v, FullDeal(v) - 2, ShortDeckHands(v), <<R("5")>>, <<>>,
                   {}, NoPlayer, FALSE) :
        v \in {"sim", "playable", "rl"}}
    \cup {Scenario(v, FullDeal(v) - 1, RouletteHands(v), <<R("5")>>, d, {},
                   NoPlayer, FALSE) :
        v \in {"sim", "playable"}, d \in {<<>>, <<Y("5"), B("5")>>}}
    \cup {Scenario(v, 26, MercyHands(n), <<A("Blue", "Skip")>>, <<>>, {},
                   NoPlayer, TRUE) :
        v \in {"sim", "playable"}, n \in {2, 3}}
    \cup {Scenario(v, 26, MercyHands(n), <<A("Blue", "DiscardColor")>>,
                   <<G("1")>>, {}, NoPlayer, TRUE) :
        v \in {"sim", "playable", "rl"}, n \in {2, 3}}
    \cup {Scenario(v, FullDeal(v), <<<<>>, <<>>>>, <<>>, <<>>, {}, NoPlayer,
                   FALSE) :
        v \in {"sim", "playable", "rl"}}

ValidScenario(sc) ==
    /\ \A i \in 1..Len(sc.hands) : Len(sc.hands[i]) <= sc.m
    /\ Len(sc.start) <= 1
    /\ Len(RemoveEach(DeckOf(sc.variant),
                      Flatten(sc.hands) \o sc.start \o sc.draws))
         = Len(DeckOf(sc.variant))
           - Len(Flatten(sc.hands) \o sc.start \o sc.draws)
    /\ Len(sc.hands) * sc.m + 1 <= Len(DeckOf(sc.variant))

-----------------------------------------------------------------------------
(* The state machine *)

Install(g) ==
    /\ players' = g.players
    /\ deck' = g.deck
    /\ discard_pile' = g.discard_pile
    /\ current_player_index' = g.current_player_index
    /\ direction' = g.direction
    /\ turn_count' = g.turn_count
    /\ game_over' = g.game_over
    /\ pending_draw' = g.pending_draw
    /\ pending_draw_type' = g.pending_draw_type
    /\ winner_id' = g.winner_id
    /\ error' = g.error
    /\ ev' = g.ev
    /\ UNCHANGED <<variant, mercy_rule, max_turns, initial_size>>

Init ==
    \E sc \in Scenarios :
        /\ ValidScenario(sc)
        /\ \E g \in {IF sc.variant = "vanilla" THEN vanilla_NewGame(sc)
                     ELSE NewGame(sc)} :
               /\ variant = sc.variant
               /\ players = g.players
               /\ deck = g.deck
               /\ discard_pile = g.discard_pile
               /\ current_player_index = g.current_player_index
               /\ direction = g.direction
               /\ turn_count = g.turn_count
               /\ game_over = g.game_over
               /\ pending_draw = g.pending_draw
               /\ pending_draw_type = g.pending_draw_type
               /\ winner_id = g.winner_id
               /\ mercy_rule = g.mercy_rule
               /\ max_turns = g.max_turns
               /\ initial_size = Len(DeckOf(sc.variant))
               /\ error = g.error
               /\ ev = g.ev

CurrentPlayer == players[current_player_index + 1]

\* outcomes of random.shuffle that matter: one when nothing is recycled
ShuffleInputs ==
    IF Len(deck) < (IF variant = "vanilla" THEN 4 ELSE RecycleThreshold)
    THEN 0..(NumShuffles - 1) ELSE {0}

\* what a human may answer at the card prompt: 'd', or the index of a card
\* the prompt accepts (any other answer is asked again)
HumanChoices ==
    LET hand == CurrentPlayer.hand
        top  == get_top_card(Game)
    IN  IF variant = "vanilla"
        THEN {-1} \cup {i - 1 : i \in find_playable_cards(hand, top)}
        ELSE IF pending_draw > 0
        THEN {-1} \cup
             {i - 1 : i \in 1..Len(stackable_cards(hand, pending_draw_type))}
        ELSE IF has_playable_card(hand, top)
        THEN {-1} \cup
             {i - 1 : i \in {j \in 1..Len(hand) : is_valid_choice(hand[j], top)}}
        ELSE {-1}

\* what RLAgent.get_action may return as card index: -1 (draw), an index
\* into the hand, or len(hand), which is out of range
AgentChoices == -1..Len(CurrentPlayer.hand)

ChoiceInputs ==
    IF CurrentPlayer.is_human THEN HumanChoices
    ELSE IF CurrentPlayer.is_rl THEN AgentChoices
    ELSE {-1}

Interactive == CurrentPlayer.is_human \/ CurrentPlayer.is_rl

\* the colour prompt, and random.choice of the classic engine's AI
ColorInputs ==
    IF Interactive
       \/ (variant = "vanilla"
            /\ \A i \in 1..Len(CurrentPlayer.hand) :
                   CurrentPlayer.hand[i].color = "Wild")
    THEN 0..3 ELSE {0}

YesNoInputs(ch) ==
    IF Interactive /\ pending_draw = 0 /\ ch = -1 THEN BOOLEAN ELSE {TRUE}

SwapInputs ==
    IF CurrentPlayer.is_human /\ pending_draw = 0 /\ variant # "vanilla"
    THEN -1..(Len(players) - 2) ELSE {-1}

\* an answer the prompt of the current player does not take, if a prompt is
\* shown: the first card of the hand that may not be played, or a number
\* past the end of the list shown
RefusedInputs ==
    LET hand == CurrentPlayer.hand
        top  == get_top_card(Game)
        bad  == IF variant = "vanilla"
                THEN {j \in 1..Len(hand) : j \notin find_playable_cards(hand, top)}
                ELSE {j \in 1..Len(hand) : ~is_valid_choice(hand[j], top)}
        first == {j - 1 : j \in {k \in bad : \A m \in bad : k <= m}}
    IN  IF ~CurrentPlayer.is_human THEN {NoAnswer}
        ELSE IF variant = "vanilla"
        THEN IF pending_draw = 0 /\ find_playable_cards(hand, top) # {}
             THEN {NoAnswer, Len(hand)} \cup first ELSE {NoAnswer}
        ELSE IF pending_draw > 0
        THEN IF stackable_cards(hand, pending_draw_type) # <<>>
             THEN {NoAnswer, Len(stackable_cards(hand, pending_draw_type))}
             ELSE {NoAnswer}
        ELSE IF has_playable_card(hand, top)
        THEN {NoAnswer, Len(hand)} \cup first ELSE {NoAnswer}

Inputs ==
    {[shuffle |-> sh, choice |-> ch, color |-> co, yn |-> yn, swap |-> sw,
      refused |-> rf] :
        sh \in ShuffleInputs, ch \in ChoiceInputs, co \in ColorInputs,
        yn \in BOOLEAN, sw \in SwapInputs, rf \in RefusedInputs}

\* one iteration of start_game's loop in the playable engine
PlayableTurn ==
    /\ variant = "playable"
    /\ error = "None"
    /\ ~game_over
    /\ turn_count < MaxTurns
    /\ \E inp \in Inputs :
          /\ inp.yn \in YesNoInputs(inp.choice)
          /\ \E g \in {play_turn(Game, inp).g} : Install(g)

\* one iteration of the loop of train_rl_agent in the RL engine
RLTurn ==
    /\ variant = "rl"
    /\ error = "None"
    /\ ~game_over
    /\ turn_count < MaxTurns
    /\ \E inp \in Inputs :
          /\ inp.yn \in YesNoInputs(inp.choice)
          /\ \E g \in {train_rl_agent(Game, inp)} : Install(g)

\* one iteration of start_game's loop in the simulation
SimTurn ==
    /\ variant = "sim"
    /\ error = "None"
    /\ ~game_over
    /\ turn_count < max_turns
    /\ Len(players) > 1
    /\ \E k \in ShuffleInputs : \E g \in {sim_start_game_step(Game, k)} : Install(g)

\* one iteration of start_game's loop in the classic engine
VanillaTurn ==
    /\ variant = "vanilla"
    /\ error = "None"
    /\ ~game_over
    /\ turn_count < MaxTurns
    /\ \E inp \in Inputs :
          /\ inp.yn \in YesNoInputs(inp.choice)
          /\ \E g \in {vanilla_play_turn(Game, inp)} : Install(g)

Next == PlayableTurn \/ RLTurn \/ SimTurn \/ VanillaTurn

Spec == Init /\ [][Next]_vars

\* no further turn is taken: the game is over, the program has stopped, or
\* the turns explored are used up (the guards of the four actions)
Stopped ==
    \/ game_over \/ error # "None"
    \/ (variant = "sim" /\ Len(players) <= 1)
    \/ turn_count >= (IF variant = "sim" THEN max_turns ELSE MaxTurns)

\* start_game keeps calling play_turn while the game is not over: a game
\* does not halt in a state where a turn can be taken.  This is weak
\* fairness of Next, WF_vars(Next), with ~Stopped written for ENABLED
\* <<Next>>_vars.
FairSpec == Spec /\ ([]<>Stopped \/ []<><<Next>>_vars)

-----------------------------------------------------------------------------
(* Derived notions used by the properties *)

\* the hand sizes of the players in the ring, summed
RECURSIVE SumHands(_)
SumHands(ps) ==
    IF ps = <<>> THEN 0 ELSE Len(Head(ps).hand) + SumHands(Tail(ps))

TotalCards == Len(deck) + Len(discard_pile) + SumHands(players)

\* the last step was a turn of the game
TurnTaken == ev.kind # "init"

\* the hand of the player who acted in the last turn, if still in the ring
ActorInRing == IndexOfId(players, ev.actor) >= 0

ActorHand == HandOfId(Game, ev.actor)

\* the turn engine's GameOver: play_turn returned True or set game_over; in
\* the simulation also the end of start_game's loop with one player left
Terminal == game_over \/ (variant = "sim" /\ Len(players) <= 1)

\* the same cards, whatever their order
SameCards(a, b) ==
    /\ Len(a) = Len(b)
    /\ \A i \in 1..Len(a) :
          Cardinality({j \in 1..Len(a) : a[j] = a[i]})
              = Cardinality({j \in 1..Len(b) : b[j] = a[i]})

-----------------------------------------------------------------------------
(* Card conservation *)

\* C1: in every reachable state the cards in the Deck, in the Discard pile
\* and in the hands of the players still in the ring number as many as the
\* deck built at game start.
C1_Conservation == TotalCards = initial_size

\* a recycle that found cards left in the deck
C1_RecycleWithDeck ==
    ev.recycle.did /\ ev.recycle.deck_before # <<>>

-----------------------------------------------------------------------------
(* Winning *)

\* C2: whenever a turn in which a card was played (a normal play, a play of
\* the card just drawn, a stack on a pending draw) leaves the acting
\* player's hand empty, the game is terminal and that player is the winner.
C2_EmptyHandWins ==
    (/\ TurnTaken /\ ev.played # NoCard
     /\ ActorInRing /\ ActorHand = <<>>)
        => (Terminal /\ winner_id = ev.actor)

\* a normal play of a last card ends the game with the actor as winner
C2_LastCardPlayed ==
    /\ TurnTaken /\ ev.kind = "normal" /\ ev.played # NoCard
    /\ ActorInRing /\ ActorHand = <<>>
    /\ game_over /\ winner_id = ev.actor

-----------------------------------------------------------------------------
(* Mercy elimination *)

\* C3: when the mercy elimination fires, the player removed from the ring
\* is the player who acted in that turn, also after a Skip or a SkipAll.
C3_RemovedIsActor == ev.removed # NoPlayer => ev.removed = ev.actor

\* an elimination in a turn whose card was a Skip
C3_EliminationAfterSkip ==
    ev.removed # NoPlayer /\ ev.played.value = "Skip"

\* C4: after every turn current_player_index is a valid index into the
\* list of players, shrunk or not.
C4_IndexValid ==
    /\ 0 <= current_player_index
    /\ current_player_index < Len(players)

\* a turn that eliminated a player and left several in the ring
C4_AfterElimination ==
    /\ ev.removed # NoPlayer
    /\ Len(players) >= 2
    /\ current_player_index < Len(players)

\* C5: whenever a mercy elimination leaves exactly one player in the ring,
\* the game is terminal and winner_id is that player's id.
C5_LastPlayerWins ==
    (ev.removed # NoPlayer /\ Len(players) = 1)
        => (Terminal /\ winner_id = players[1].id)

\* an elimination that left one player, here recorded as the winner
C5_LastPlayerRecorded ==
    /\ ev.removed # NoPlayer /\ Len(players) = 1
    /\ game_over /\ winner_id = players[1].id

-----------------------------------------------------------------------------
(* The pending draw *)

\* C6: in every reachable state of a No Mercy engine (the classic engine
\* keeps no pending draw type) the pending draw type is None exactly when
\* the pending draw amount is 0.
C6_TypeNoneIffZero ==
    variant # "vanilla" =>
        ((pending_draw_type = "None") <=> (pending_draw = 0))

\* C7: a stack of a card of value v on a pending draw raises the pending
\* amount by the penalty of v and makes v the pending type.
C7_StackAddsPenalty ==
    ev.kind = "stack" =>
        /\ pending_draw = ev.pre_pending + penalty_of(ev.played.value)
        /\ pending_draw_type = ev.played.value

\* a Draw4 stacked on {2, Draw2} gives {6, Draw4}
C7_Draw4OnDraw2 ==
    /\ ev.kind = "stack" /\ ev.played.value = "Draw4"
    /\ ev.pre_pending = 2 /\ ev.pre_type = "Draw2"
    /\ pending_draw = 6 /\ pending_draw_type = "Draw4"

\* C8: a player who faces a pending draw and holds no stackable card, or
\* declines to stack, draws the pending amount (fewer only if the deck runs
\* out), plays nothing, and leaves the pending draw cleared: amount 0 and
\* type None, nothing passed on to a later player.
C8_PendingResolved ==
    (TurnTaken /\ ev.pre_pending > 0 /\ ev.kind # "stack") =>
        /\ ev.played = NoCard
        /\ ev.drew = ev.pre_pending \/ deck = <<>>
        /\ pending_draw = 0
        /\ pending_draw_type = "None"

\* a player without a stackable card drew the whole penalty
C8_ForcedDraw ==
    /\ ev.kind = "forced" /\ ev.drew = ev.pre_pending /\ ev.drew > 0
    /\ pending_draw = 0 /\ pending_draw_type = "None"

\* the card under the top of the discard pile
CardBelowTop == discard_pile[Len(discard_pile) - 1]

\* C9: a card is accepted as a stack only if the escalation table allows
\* its value on the pending type, and so the card stacked never carries a
\* smaller penalty than the draw card it is stacked on.
C9_Escalation ==
    ev.kind = "stack" =>
        /\ ev.played.value \in allowed_stacking(ev.pre_type)
        /\ penalty_of(ev.played.value) >= penalty_of(CardBelowTop.value)

\* the table alone: the card stacked is in the row of the pending type as
\* the engine holds it at that moment
C9_InTable ==
    ev.kind = "stack" => ev.played.value \in allowed_stacking(ev.pre_type)

-----------------------------------------------------------------------------
(* Recycling *)

\* C10: a recycle leaves the Deck holding the cards it held before together
\* with every Discard card except the top one, and the Discard pile holding
\* the previous top card alone.
C10_RecycleKeepsCards ==
    ev.recycle.did =>
        LET r == ev.recycle
            n == Len(r.discard_before)
        IN  /\ SameCards(r.deck_after,
                         r.deck_before \o SubSeq(r.discard_before, 1, n - 1))
            /\ r.discard_after = <<r.discard_before[n]>>

\* a recycle of a deck that was empty
C10_RecycleOfEmptyDeck ==
    ev.recycle.did /\ ev.recycle.deck_before = <<>>

-----------------------------------------------------------------------------
(* Drawing *)

\* C11: a draw of n cards (a single draw, a pending penalty, the draw of a
\* ReverseDraw4) delivers min(n, |Deck| + |Discard| - 1) cards: what the
\* deck lacks comes from the discard pile below its top card.
C11_DrawDelivers ==
    ev.request.made =>
        ev.request.got
            = Min2(ev.request.n, ev.request.deck + ev.request.discard - 1)

\* a penalty drawn in full from a deck that held enough cards
C11_DeckSuffices ==
    /\ ev.request.made /\ ev.request.n > 1
    /\ ev.request.deck >= ev.request.n
    /\ ev.request.got = ev.request.n

\* C12: a draw asked of an empty deck that cannot be refilled returns no
\* card and the turn completes without an error, in every engine
C12_EmptyDrawCompletes ==
    (ev.request.made /\ ev.request.deck = 0) =>
        (ev.request.got = 0 /\ error = "None")

\* a No Mercy turn that drew from an empty deck and went on
C12_EmptyDrawNoMercy ==
    /\ variant # "vanilla"
    /\ ev.request.made /\ ev.request.deck = 0
    /\ ev.request.got = 0 /\ error = "None"

-----------------------------------------------------------------------------
(* Wild cards *)

\* a wild card of a No Mercy engine or of the classic engine
IsWildCard(c) == c.type = "wild" \/ c.value \in {"Wild", "Wild Draw4"}

Colored(c) == c.color \in ColorSet

\* C13: every wild card played onto the discard pile has a colour from the
\* end of its turn onward: above the bottom of the pile every wild card is
\* coloured, a wild card just played is coloured, and an uncoloured wild
\* card lies at the bottom of the pile only if the same card lay there
\* already (the start card, which nobody played).
C13_PlayedWildColored ==
    /\ [](/\ \A j \in 2..Len(discard_pile) :
               IsWildCard(discard_pile[j]) => Colored(discard_pile[j])
          /\ (TurnTaken /\ IsWildCard(ev.played)) =>
                Colored(discard_pile[Len(discard_pile)]))
    /\ [][(/\ discard_pile' # <<>>
           /\ IsWildCard(discard_pile'[1])
           /\ ~Colored(discard_pile'[1]))
              => (discard_pile # <<>> /\ discard_pile[1] = discard_pile'[1])]_vars

\* a wild card was played in the last turn and lies coloured on top
C13_WildOnTop ==
    /\ TurnTaken /\ IsWildCard(ev.played)
    /\ discard_pile[Len(discard_pile)].value = ev.played.value
    /\ Colored(discard_pile[Len(discard_pile)])

\* C14: in every reachable state every wild card in the deck or in a hand
\* carries no colour, also after a recycle of the discard pile
C14_UnplayedWildUncolored ==
    /\ \A j \in 1..Len(deck) : IsWildCard(deck[j]) => ~Colored(deck[j])
    /\ \A i \in 1..Len(players) : \A j \in 1..Len(players[i].hand) :
          IsWildCard(players[i].hand[j]) => ~Colored(players[i].hand[j])

\* a recycle that moved a wild card from the discard pile to the deck
C14_WildRecycled ==
    /\ ev.recycle.did
    /\ \E j \in 1..Len(ev.recycle.deck_after) :
          IsWildCard(ev.recycle.deck_after[j])

-----------------------------------------------------------------------------
(* Legality.  The checks of the No Mercy engines are pure functions of a    *)
(* card and the top card: LegalitySpec applies them to every card the deck  *)
(* holds on every card that can lie on top of the discard pile.             *)

\* the cards create_deck builds, without repetition
HandCards == {create_deck[i] : i \in 1..Len(create_deck)}

\* what can lie on top: a card as built, or a wild card with its colour
TopCards ==
    HandCards \cup
    {[w EXCEPT !.color = c] : w \in {h \in HandCards : h.type = "wild"},
                              c \in ColorSet}

LegalityInit ==
    \E card \in HandCards, top_card \in TopCards :
        /\ variant = "playable"
        /\ players = <<[Player(1, TRUE, FALSE) EXCEPT !.hand = <<card>>]>>
        /\ deck = <<>>
        /\ discard_pile = <<top_card>>
        /\ current_player_index = 0
        /\ direction = 1
        /\ turn_count = 0
        /\ game_over = FALSE
        /\ pending_draw = 0
        /\ pending_draw_type = "None"
        /\ winner_id = NoPlayer
        /\ mercy_rule = FALSE
        /\ max_turns = 0
        /\ initial_size = Len(create_deck)
        /\ error = "None"
        /\ ev = [kind |-> "init"]

\* the verdicts of the checks on the one hand card and the top card
CheckLegality ==
    /\ ev.kind = "init"
    /\ LET card     == players[1].hand[1]
           top_card == get_top_card(Game)
       IN  ev' = [kind |-> "legality", card |-> card, top_card |-> top_card,
                  is_valid_choice   |-> is_valid_choice(card, top_card),
                  find_best_card    |->
                      find_best_card(players[1].hand, top_card) # NoCard,
                  sim_find_best_card |->
                      sim_find_best_card(players[1].hand, top_card) # NoCard,
                  has_playable_card |->
                      has_playable_card(players[1].hand, top_card)]
    /\ UNCHANGED <<variant, players, deck, discard_pile, current_player_index,
                   direction, turn_count, game_over, pending_draw,
                   pending_draw_type, winner_id, mercy_rule, max_turns,
                   initial_size, error>>

LegalityNext == CheckLegality

LegalitySpec == LegalityInit /\ [][LegalityNext]_vars

\* C15: every legality check accepts a card exactly when it is a wild
\* card, or its colour is the top card's colour, or its value is the top
\* card's value, or the top card is an uncoloured wild card; so all checks
\* agree on every pair of a card and a top card.
C15_ChecksAgree ==
    ev.kind = "legality" =>
        LET playable ==
                \/ ev.card.type = "wild"
                \/ ev.card.color = ev.top_card.color
                \/ ev.card.value = ev.top_card.value
                \/ (ev.top_card.type = "wild" /\ ev.top_card.color = "None")
        IN  /\ ev.is_valid_choice = playable
            /\ ev.find_best_card = playable
            /\ ev.sim_find_best_card = playable
            /\ ev.has_playable_card = playable

\* a card of the top card's colour and of another value: every check
\* accepts it
C15_ColorMatchAccepted ==
    /\ ev.kind = "legality"
    /\ ev.card.type # "wild" /\ ev.card.color = ev.top_card.color
    /\ ev.card.value # ev.top_card.value
    /\ ev.is_valid_choice /\ ev.find_best_card
    /\ ev.sim_find_best_card /\ ev.has_playable_card

-----------------------------------------------------------------------------
(* Normal play *)

\* C16: every card played in a normal turn (the AI's best card, a human
\* choice, a card just drawn) is playable on the top card seen at the
\* start of the turn: it is a wild card, or it has the top card's colour or
\* value, or the top card is an uncoloured wild card.
C16_PlayedIsPlayable ==
    (TurnTaken /\ ev.kind = "normal" /\ ev.played # NoCard) =>
        \/ IsWildCard(ev.played)
        \/ ev.played.color = ev.pre_top.color
        \/ ev.played.value = ev.pre_top.value
        \/ (IsWildCard(ev.pre_top) /\ ~Colored(ev.pre_top))

\* a coloured card played on a top card of another colour and its value
C16_ValueMatchPlayed ==
    /\ TurnTaken /\ ev.kind = "normal" /\ ev.played # NoCard
    /\ ~IsWildCard(ev.played)
    /\ ev.played.color # ev.pre_top.color
    /\ ev.played.value = ev.pre_top.value

-----------------------------------------------------------------------------
(* The rotation of the hands (value 0) *)

\* C17: a rotation is a bijection on hands: after it the player at ring
\* index i holds the hand the player at index (i - direction) mod ring size
\* held before, so the hands, and the cards in them, are the same before
\* and after.
C17_RotationBijection ==
    ev.rotation.did =>
        LET r == ev.rotation
            n == Len(r.before)
        IN  /\ Len(r.after) = n
            /\ \A i \in 0..(n - 1) :
                  r.after[i + 1] = r.before[((i - r.direction) % n) + 1]
            /\ SameCards(r.after, r.before)
            /\ SameCards(Flatten(r.after), Flatten(r.before))

\* a rotation among three players whose hands differ
C17_ThreeHandsRotated ==
    /\ ev.rotation.did /\ Len(ev.rotation.before) = 3
    /\ \A i, j \in 1..3 :
          i # j => ev.rotation.before[i] # ev.rotation.before[j]

\* C18 as stated: after a rotation every player in the ring holds as many
\* cards as before it
C18_SizesUnchanged ==
    ev.rotation.did =>
        \A i \in 1..Len(ev.rotation.before) :
            Len(ev.rotation.after[i]) = Len(ev.rotation.before[i])

\* C18: a rotation changes no hand's size: the player at ring index i holds
\* after it as many cards as the player at index (i - direction) mod ring
\* size held before, and the players hold as many cards together as before.
C18_SizesRotated ==
    ev.rotation.did =>
        LET r == ev.rotation
            n == Len(r.before)
        IN  /\ \A i \in 0..(n - 1) :
                  Len(r.after[i + 1])
                      = Len(r.before[((i - r.direction) % n) + 1])
            /\ Len(Flatten(r.after)) = Len(Flatten(r.before))

\* a rotation between hands of different sizes
C18_UnequalHands ==
    /\ ev.rotation.did
    /\ \E i \in 1..Len(ev.rotation.before) :
          Len(ev.rotation.after[i]) # Len(ev.rotation.before[i])

-----------------------------------------------------------------------------
(* The mercy rule *)

\* the number of cards the acting player held when the turn ended: what the
\* mercy check saw, or the hand as it is when the turn made no check
EndHand == IF ev.mercy_hand >= 0 THEN ev.mercy_hand ELSE Len(ActorHand)

\* C19: with the mercy rule on, a normal turn eliminates a player exactly
\* when the acting player ends it with more than 25 cards: 25 cards stay
\* in the ring, 26 or more are removed.
C19_MercyAbove25 ==
    (TurnTaken /\ ev.kind = "normal" /\ mercy_rule /\ error = "None") =>
        ((ev.removed # NoPlayer) <=> (EndHand > MercyLimit))

\* a player who ended a normal turn with 27 cards and was removed
C19_Removed27 ==
    /\ TurnTaken /\ ev.kind = "normal" /\ mercy_rule
    /\ EndHand = MercyLimit + 2 /\ ev.removed = ev.actor

\* the playable and RL engines: 25 cards at the end of a normal turn stay
C19_Kept25 ==
    /\ TurnTaken /\ ev.kind = "normal" /\ mercy_rule /\ variant # "sim"
    /\ EndHand = MercyLimit /\ ev.removed = NoPlayer

\* the ids of the players in a ring
Ids(ps) == {ps[i].id : i \in 1..Len(ps)}

\* C20: over a game the ring never grows, each mercy elimination (and
\* nothing else) makes it one player smaller, and no id enters the ring:
\* a player once eliminated stays out.
C20_RingShrinks ==
    [][/\ Len(players') <= Len(players)
       /\ Ids(players') \subseteq Ids(players)
       /\ (ev'.removed # NoPlayer) <=> (Len(players') = Len(players) - 1)
       /\ (ev'.removed = NoPlayer) <=> (Len(players') = Len(players))
       /\ ev'.removed \notin Ids(players')]_vars

\* an elimination that left two of three players in the ring
C20_TwoOfThreeLeft ==
    /\ ev.removed # NoPlayer
    /\ Len(players) = 2
    /\ ev.removed \notin Ids(players)
    /\ Ids(players) \cup {ev.removed} = {1, 2, 3}

-----------------------------------------------------------------------------
(* Stacking chains *)

\* the cards in the hands of the ring that carry a draw penalty
RECURSIVE DrawCardsHeld(_)
DrawCardsHeld(ps) ==
    IF ps = <<>> THEN 0
    ELSE Len(SelectSeq(Head(ps).hand, LAMBDA c : c.value \in DOMAIN penalties))
         + DrawCardsHeld(Tail(ps))

\* C21: a pending draw is resolved after a number of turns bounded by the
\* draw cards held in hands: every turn that finds a pending draw either
\* clears it or is a stack that takes one draw card out of the hands, and
\* while turns are taken a pending draw leads to an amount of 0.
C21_PendingResolves ==
    /\ [][pending_draw > 0 =>
            \/ pending_draw' = 0
            \/ /\ ev'.kind = "stack"
               /\ DrawCardsHeld(players') = DrawCardsHeld(players) - 1]_vars
    /\ [](pending_draw > 0 => <>(pending_draw = 0 \/ Stopped))

\* a penalty that grew by stacking and was drawn in the end
C21_StackedPenaltyDrawn ==
    /\ ev.kind \in {"forced", "decline"}
    /\ ev.pre_type # "None"
    /\ ev.pre_pending > penalty_of(ev.pre_type)
    /\ ev.drew = ev.pre_pending /\ pending_draw = 0

-----------------------------------------------------------------------------
(* The learning agent *)

\* a learning agent sits in the ring
AgentInRing == \E i \in 1..Len(players) : players[i].is_rl

\* the player who acted in the last turn is the learning agent
ActorIsAgent ==
    \E i \in 1..Len(players) : players[i].id = ev.actor /\ players[i].is_rl

\* C22: a game with a learning agent runs, and a normal turn of the agent
\* that plays no card (draw returned, or an index out of range or of an
\* unplayable card) is a draw of one card.
C22_IllegalChoiceDraws ==
    /\ AgentInRing => error = "None"
    /\ (TurnTaken /\ ActorIsAgent /\ ev.kind = "normal" /\ ev.played = NoCard)
         => (ev.request.made /\ ev.request.n = 1)

-----------------------------------------------------------------------------
(* Rejected decisions *)

\* C23: a decision that is rejected (a number out of range, a card that may
\* not be played, a number outside the list of stackable cards) moves no
\* card: every hand and the discard pile are the same when the question is
\* asked again, and so are the direction and the pending draw.
C23_RefusalMovesNothing ==
    ev.refusal.made => ev.refusal.before = ev.refusal.after

\* a human offered a card of their hand that may not be played, was asked
\* again and then played another card
C23_UnplayableRefused ==
    /\ ev.refusal.made
    /\ ev.refusal.choice < Len(ev.refusal.before[1][ev.pre_index + 1])
    /\ ev.played # NoCard

-----------------------------------------------------------------------------
(* The deck *)

\* C24: the deck a No Mercy game starts with holds, per colour, two of each
\* number 0..9, three Skip, two SkipAll, three Reverse, three Draw2, two
\* Draw4 and three DiscardColor, and 8 ReverseDraw4, 4 Draw6, 4 Draw10 and
\* 8 ColorRoulette: 168 cards, in the simulation, the playable engine and
\* the engine of the learning agent alike.
C24_DeckComposition ==
    LET AllCards == deck \o discard_pile
                    \o Flatten([i \in 1..Len(players) |-> players[i].hand])
        Copies(c, v) ==
            Cardinality({i \in 1..Len(AllCards) :
                            /\ AllCards[i].value = v
                            /\ c \in {"Any", AllCards[i].color}})
    IN  (ev.kind = "init" /\ error = "None" /\ variant # "vanilla") =>
          /\ \A i \in 1..Len(colors) :
                LET c == colors[i]
                IN  /\ \A k \in 1..Len(NumberValue) :
                          Copies(c, NumberValue[k]) = 2
                    /\ Copies(c, "SkipAll") = 2 /\ Copies(c, "Draw4") = 2
                    /\ \A v \in {"Skip", "Reverse", "Draw2", "DiscardColor"} :
                          Copies(c, v) = 3
          /\ Copies("Any", "ReverseDraw4") = 8
          /\ Copies("Any", "ColorRoulette") = 8
          /\ Copies("Any", "Draw6") = 4 /\ Copies("Any", "Draw10") = 4
          /\ Len(AllCards) = 168

\* a game of the playable engine starts with the 168 cards
C24_Playable168 ==
    /\ ev.kind = "init" /\ variant = "playable"
    /\ TotalCards = 168
    /\ initial_size = 168

-----------------------------------------------------------------------------
(* The effects of the cards on the order of play *)

\* the last turn played a card of this value and the game goes on with the
\* same ring
PlayedOn(v) ==
    /\ TurnTaken /\ error = "None" /\ ~Terminal
    /\ ev.played # NoCard /\ ev.played.value = v
    /\ ev.removed = NoPlayer

\* the ring index k steps of the direction of play after the actor's
StepsOn(k) == (ev.pre_index + k * direction) % Len(players)

\* C25: after a turn in which a player plays Skip, from the hand or as the
\* card just drawn, the next to act is the player two steps further in the
\* direction of play: exactly one player loses a turn.
C25_SkipSkipsOne == PlayedOn("Skip") => current_player_index = StepsOn(2)

\* a Skip played from the hand in a ring of three, one player skipped
C25_SkipFromHand ==
    /\ PlayedOn("Skip") /\ ev.drew = 0 /\ Len(players) = 3
    /\ current_player_index = StepsOn(2)

\* C26: after a turn in which a player plays SkipAll, the next to act is
\* that player again, in a ring of any size and in either direction.
C26_SkipAllPlaysAgain == PlayedOn("SkipAll") => current_player_index = StepsOn(0)

\* a SkipAll played from the hand in a ring of three: the same player is
\* next
C26_SkipAllFromHand ==
    /\ PlayedOn("SkipAll") /\ ev.drew = 0 /\ Len(players) = 3
    /\ current_player_index = ev.pre_index

\* C27: a Reverse flips the direction of play and the pointer moves by the
\* one step that ends the turn, in the new direction: the next to act is
\* the neighbour of the player who played, also in a ring of two.
C27_ReverseToNeighbour ==
    PlayedOn("Reverse") =>
        /\ direction = -1 * ev.pre_direction
        /\ current_player_index = StepsOn(1)

\* a Reverse played in a ring of three: the player before the actor in the
\* old direction is next
C27_ReverseInThree ==
    /\ PlayedOn("Reverse") /\ Len(players) = 3
    /\ direction = -1 * ev.pre_direction
    /\ current_player_index = (ev.pre_index - ev.pre_direction) % 3

-----------------------------------------------------------------------------
(* The effects of the wild cards *)

\* C28: when a ReverseDraw4 is played, the player at index (current index
\* - direction) mod ring size, with the direction as it was before the
\* card, draws 4 cards (fewer only if the deck runs out), nobody else
\* draws, and the direction flips; this in the simulation (two-branch
\* target) and in the playable engine (one formula), in either direction.
C28_ReverseDraw4Target ==
    [][PlayedOn("ReverseDraw4")' =>
          LET n == Len(players)
              t == (current_player_index - direction) % n
          IN  /\ direction' = -1 * direction
              /\ \E k \in 0..4 :
                    /\ Len(players'[t + 1].hand) = Len(players[t + 1].hand) + k
                    /\ SubSeq(players'[t + 1].hand, 1, Len(players[t + 1].hand))
                         = players[t + 1].hand
                    /\ k < 4 => deck' = <<>>
              /\ \A j \in 1..n :
                    (j # t + 1 /\ j # current_player_index + 1)
                        => players'[j].hand = players[j].hand]_vars

\* the simulation, direction -1: a ReverseDraw4 from the hand made a player
\* draw 4 and turned the direction to 1
C28_BackwardsInSim ==
    /\ PlayedOn("ReverseDraw4") /\ variant = "sim"
    /\ ev.pre_direction = -1 /\ direction = 1
    /\ ev.request.made /\ ev.request.got = 4

\* C29: when a ColorRoulette is played with the colour c chosen, the player
\* at current index + direction draws card after card and keeps them all;
\* the drawing stops at the first card of colour c, or only when the deck
\* and what a recycle of the discard pile can give are used up.
C29_RouletteUntilColor ==
    [][PlayedOn("ColorRoulette")' =>
          LET t   == (current_player_index + direction) % Len(players)
              old == players[t + 1].hand
              new == players'[t + 1].hand
              c   == ev'.played.color
          IN  /\ Len(new) >= Len(old)
              /\ SubSeq(new, 1, Len(old)) = old
              /\ \A j \in (Len(old) + 1)..(Len(new) - 1) : new[j].color # c
              /\ \/ Len(new) > Len(old) /\ new[Len(new)].color = c
                 \/ deck' = <<>> /\ Len(discard_pile') <= 1]_vars

\* a ColorRoulette played from the hand: the hand of the next player ends
\* with a card of the colour chosen, and cards are left in the deck
C29_DrewUntilColor ==
    /\ PlayedOn("ColorRoulette") /\ ev.drew = 0
    /\ deck # <<>>
    /\ LET t == (ev.pre_index + ev.pre_direction) % Len(players)
           h == players[t + 1].hand
       IN  h # <<>> /\ h[Len(h)].color = ev.played.color

\* C30: after a DiscardColor card of colour c is played, the hand of the
\* player who played holds no card of colour c, every card that left that
\* hand is in the discard pile, and no other hand and not the deck changed
\* (the deck but for the card the player drew before playing).
C30_DiscardColorEffect ==
    [][(/\ TurnTaken /\ error = "None" /\ ev.removed = NoPlayer
        /\ ev.played # NoCard /\ ev.played.value = "DiscardColor")' =>
          LET i    == current_player_index + 1
              c    == ev'.played.color
              base == IF ev'.recycle.did THEN ev'.recycle.deck_after ELSE deck
              left == SubSeq(base, 1, Len(base) - ev'.drew)
              old  == players[i].hand
                      \o SubSeq(base, Len(left) + 1, Len(base))
              new  == players'[i].hand
              gone == RemoveEach(old, new)
              put  == SubSeq(discard_pile', Len(discard_pile') - Len(gone) + 1,
                             Len(discard_pile'))
          IN  /\ \A j \in 1..Len(new) : new[j].color # c
              /\ Len(gone) = Len(old) - Len(new)
              /\ Len(gone) <= Len(discard_pile')
              /\ SameCards(gone, put)
              /\ \A j \in 1..Len(players) :
                    j # i => players'[j].hand = players[j].hand
              /\ deck' = left]_vars

\* a DiscardColor took two more cards of its colour out of the hand: they
\* lie on the card played
C30_ColorDiscarded ==
    /\ TurnTaken /\ error = "None" /\ ev.played # NoCard
    /\ ev.played.value = "DiscardColor"
    /\ Len(discard_pile) >= 4
    /\ LET n == Len(discard_pile)
       IN  /\ discard_pile[n - 2] = ev.played
           /\ discard_pile[n - 3] = ev.pre_top
           /\ discard_pile[n - 1].color = ev.played.color
           /\ discard_pile[n].color = ev.played.color
    /\ \A j \in 1..Len(ActorHand) : ActorHand[j].color # ev.played.color
    /\ ActorHand # <<>>

-----------------------------------------------------------------------------
(* The value-7 exchange *)

\* a 7 went on the discard pile in the last turn, and nobody left the ring
SevenPlayed ==
    /\ TurnTaken /\ error = "None" /\ ev.removed = NoPlayer
    /\ ev.played # NoCard
    /\ ev.played.type = "number" /\ ev.played.value = "7"

\* C31: after a turn in which a 7 was played, either no hand changed or the
\* whole hand of the player who played it (as it was once the 7 had left
\* it) and the hand of one opponent changed places, that opponent held the
\* fewest cards of all opponents, and strictly fewer than the player.
C31_SevenExchange ==
    SevenPlayed =>
        LET i      == ev.pre_index + 1
            mine   == IF ev.drew > 0 THEN ev.pre_hands[i]
                      ELSE play_card(ev.pre_hands[i], ev.played).hand
            before == [ev.pre_hands EXCEPT ![i] = mine]
            now    == [k \in 1..Len(players) |-> players[k].hand]
            others == (1..Len(players)) \ {i}
        IN  \/ now = before
            \/ \E t \in others :
                  /\ now = [before EXCEPT ![i] = before[t], ![t] = mine]
                  /\ \A k \in others : Len(before[t]) <= Len(before[k])
                  /\ Len(before[t]) < Len(mine)

\* an AI player played a 7 and holds the one card of the opponent who had
\* the fewest; that opponent holds the two cards the AI player had left
C31_SwappedWithFewest ==
    /\ SevenPlayed /\ ev.drew = 0 /\ ~game_over
    /\ LET i == ev.pre_index + 1
       IN  /\ ~players[i].is_human
           /\ \E t \in (1..Len(players)) \ {i} :
                 /\ Len(ev.pre_hands[t]) = 1
                 /\ players[i].hand = ev.pre_hands[t]
                 /\ players[t].hand
                        = play_card(ev.pre_hands[i], ev.played).hand
                 /\ Len(players[t].hand) = 2

\* an AI player played a 7 while no opponent held fewer cards: no hand
\* changed
C31_NoFewerNoSwap ==
    /\ SevenPlayed /\ ev.drew = 0 /\ ~game_over
    /\ LET i == ev.pre_index + 1
       IN  /\ ~players[i].is_human
           /\ players[i].hand = play_card(ev.pre_hands[i], ev.played).hand
           /\ \A t \in (1..Len(players)) \ {i} :
                 /\ players[t].hand = ev.pre_hands[t]
                 /\ Len(players[t].hand) >= Len(players[i].hand)

-----------------------------------------------------------------------------
(* Effects are dispatched once *)

\* a card went on the discard pile in a turn that found no pending draw
NormalPlayed ==
    /\ TurnTaken /\ error = "None" /\ ev.pre_pending = 0
    /\ ev.played # NoCard

\* C32: in a turn without a pending draw in which a card was played, from
\* the hand or as the card just drawn, the effects of the card were
\* dispatched exactly once, and for a 0 or a 7 of the no-mercy engines the
\* hand rotation or exchange was run exactly once.
C32_EffectsOnce ==
    NormalPlayed =>
        /\ ev.effects = 1
        /\ (ev.played.type = "number" /\ ev.played.value \in {"0", "7"})
              => ev.hand_effects = 1

\* an AI player drew a 0 and played it: one dispatch, one rotation
C32_DrawnZeroOnce ==
    /\ NormalPlayed /\ ev.drew = 1 /\ ev.played.type = "number"
    /\ ev.played.value = "0"
    /\ ev.effects = 1 /\ ev.hand_effects = 1 /\ ev.rotation.did

\* a human without a playable card drew a card and played it: two
\* dispatches
C32_DispatchedTwice ==
    /\ NormalPlayed /\ ev.drew = 1 /\ ev.effects = 2

\* a human who chose to draw played the 0 drawn: no rotation
C32_ZeroNotRotated ==
    /\ NormalPlayed /\ ev.drew = 1 /\ ev.played.type = "number"
    /\ ev.played.value = "0"
    /\ ev.effects = 1 /\ ev.hand_effects = 0 /\ ~ev.rotation.did

-----------------------------------------------------------------------------
(* Starting a pending draw *)

\* C33: a turn takes the normal branch only when no draw is pending; after
\* a turn of the normal branch in which a Draw2, Draw4, Draw6 or Draw10 was
\* played the pending amount is the penalty of that card and, in the
\* engines that keep a pending type, the type is the value of that card;
\* and when a draw is pending the next turn is the turn of the player the
\* ring pointer is on and resolves it (it does not take the normal branch).
C33_PendingStarted ==
    [][/\ ev'.kind = "normal" => pending_draw = 0
       /\ (NormalPlayed /\ ev.played.value \in DOMAIN penalties)' =>
             /\ pending_draw' = penalties[ev'.played.value]
             /\ variant # "vanilla" => pending_draw_type' = ev'.played.value
       /\ pending_draw > 0 =>
             /\ ev'.actor = CurrentPlayer.id
             /\ ev'.kind \in {"stack", "forced", "decline", "pass"}
             /\ ev'.pre_pending = pending_draw]_vars

\* a Draw10 was played in the normal branch: ten cards of type Draw10 are
\* pending for the next player
C33_Draw10Pending ==
    /\ NormalPlayed /\ ~Terminal /\ ev.played.value = "Draw10"
    /\ pending_draw = 10 /\ pending_draw_type = "Draw10"
    /\ current_player_index
          = (ev.pre_index + ev.pre_direction) % Len(players)

-----------------------------------------------------------------------------
(* The mercy check on every turn *)

\* C34: with the mercy rule on, a player who ends their own turn holding
\* more than MercyLimit cards has been removed from the ring, whatever the
\* turn was: a normal turn or the resolution of a pending draw.
C34_MercyEveryTurn ==
    (TurnTaken /\ mercy_rule /\ error = "None" /\ EndHand > MercyLimit)
        => ev.removed = ev.actor

\* a player drew a card in a normal turn, held more than MercyLimit cards
\* and was removed
C34_RemovedOnNormalDraw ==
    /\ TurnTaken /\ mercy_rule /\ error = "None" /\ ev.kind = "normal"
    /\ ev.drew = 1 /\ ev.played = NoCard
    /\ EndHand > MercyLimit /\ ev.removed = ev.actor

\* a player drew a pending penalty, holds more than MercyLimit cards and
\* is still in the ring
C34_PenaltyKeptInRing ==
    /\ TurnTaken /\ mercy_rule /\ error = "None" /\ ev.kind = "forced"
    /\ ActorInRing /\ Len(ActorHand) > MercyLimit
    /\ ev.removed = NoPlayer /\ ~Terminal

-----------------------------------------------------------------------------
(* The top of the discard pile *)

\* C35: after a turn in which a card was played the top of the discard
\* pile is that card (with the colour chosen for it, for a wild card of the
\* classic engine).
C35_TopIsPlayed ==
    (TurnTaken /\ error = "None" /\ ev.played # NoCard) =>
        LET top == get_top_card(Game)
        IN  /\ top.type = ev.played.type
            /\ top.value = ev.played.value
            /\ top.color = ev.played.color \/ ev.played.color = "Wild"

\* a number card was played on the start card and lies on top of it
C35_NumberOnTop ==
    /\ TurnTaken /\ error = "None" /\ ev.played # NoCard
    /\ ev.played.type = "number" /\ ev.drew = 0
    /\ Len(discard_pile) = 2
    /\ discard_pile[1] = ev.pre_top /\ discard_pile[2] = ev.played

\* a DiscardColor was played from a hand with another card of its colour:
\* that card lies on top of the DiscardColor card
C35_DiscardedOnTop ==
    /\ TurnTaken /\ error = "None" /\ ev.played # NoCard
    /\ ev.played.value = "DiscardColor"
    /\ get_top_card(Game) # ev.played
    /\ get_top_card(Game).color = ev.played.color

-----------------------------------------------------------------------------
(* Termination of the simulation *)

\* the condition that ends the while loop of the simulation's start_game
LoopEnded == game_over \/ turn_count >= max_turns \/ Len(players) <= 1

\* C36: in the simulation every iteration of start_game's loop adds exactly
\* one to turn_count, which never passes the turn cap max_turns; a
\* ColorRoulette takes out of the deck exactly the cards its target draws,
\* at most the cards the deck holds; and the loop ends: while iterations
\* are made, a state is reached in which the loop condition is false.
C36_SimTerminates ==
    /\ [][variant = "sim" =>
            /\ ~LoopEnded
            /\ turn_count' = turn_count + 1
            /\ turn_count' <= max_turns
            /\ (ev'.played # NoCard /\ ev'.played.value = "ColorRoulette"
                /\ ev'.removed = NoPlayer) =>
                  LET base == IF ev'.recycle.did THEN ev'.recycle.deck_after
                              ELSE deck
                      t    == (current_player_index + direction)
                                  % Len(players)
                  IN  /\ Len(deck') <= Len(base)
                      /\ Len(players'[t + 1].hand)
                            = Len(players[t + 1].hand)
                                + Len(base) - Len(deck')]_vars
    /\ [](variant = "sim" => <>LoopEnded)

\* the simulation's loop ended at the turn cap with the game not won
C36_StoppedAtCap ==
    /\ variant = "sim" /\ turn_count = max_turns
    /\ ~game_over /\ Len(players) > 1

-----------------------------------------------------------------------------
(* The turn after a mercy elimination *)

\* a player was removed from the ring in the last turn and the game goes
\* on with two players or more
EliminatedMidGame ==
    /\ TurnTaken /\ error = "None" /\ ev.removed # NoPlayer
    /\ Len(players) >= 2 /\ ~Terminal

\* the id of the player who follows the removed player in the direction of
\* play (the ring keeps the players in the order of their ids)
SuccessorOfRemoved ==
    LET ids   == {players[k].id : k \in 1..Len(players)}
        above == {x \in ids : x > ev.removed}
        below == {x \in ids : x < ev.removed}
        least(S)    == CHOOSE x \in S : \A y \in S : x <= y
        greatest(S) == CHOOSE x \in S : \A y \in S : x >= y
    IN  IF direction = 1
        THEN IF above # {} THEN least(above) ELSE least(ids)
        ELSE IF below # {} THEN greatest(below) ELSE greatest(ids)

\* C37: after a mercy elimination that leaves two players or more, the
\* ring pointer is on the player who followed the removed player in the
\* direction of play.
C37_SuccessorActsNext ==
    EliminatedMidGame => CurrentPlayer.id = SuccessorOfRemoved

\* the playable engine, direction -1: the pointer is on the successor
C37_SuccessorBackwards ==
    /\ EliminatedMidGame /\ variant = "playable" /\ direction = -1
    /\ ev.removed = ev.actor
    /\ CurrentPlayer.id = SuccessorOfRemoved

\* the playable engine, direction +1: a player who drew and played no card
\* was removed, and the pointer is past the successor
C37_SuccessorSkipped ==
    /\ EliminatedMidGame /\ variant = "playable" /\ direction = 1
    /\ ev.removed = ev.actor /\ ev.played = NoCard
    /\ CurrentPlayer.id # SuccessorOfRemoved

\* the simulation, direction -1: the pointer is on the player who acted
\* before the removed player
C37_WrongWayInSim ==
    /\ EliminatedMidGame /\ variant = "sim" /\ direction = -1
    /\ ev.removed = ev.actor
    /\ CurrentPlayer.id # SuccessorOfRemoved

-----------------------------------------------------------------------------
(* No empty hand while play continues *)

\* C38: in every state in which the game is not terminal, every player in
\* the ring holds a card.
C38_NoEmptyHand ==
    (error = "None" /\ ~Terminal) =>
        \A k \in 1..Len(players) : players[k].hand # <<>>

\* a DiscardColor took the last cards out of the hand of the player who
\* played it, and the game is over with that player as winner
C38_DumpEndsGame ==
    /\ NormalPlayed /\ ev.played.value = "DiscardColor"
    /\ ActorInRing /\ ActorHand = <<>>
    /\ Len(discard_pile) >= 3 /\ get_top_card(Game) # ev.played
    /\ Terminal /\ winner_id = ev.actor

\* a 0 was played as last card and the hands were rotated: another player
\* holds the empty hand and the game goes on
C38_EmptyHandPassedOn ==
    /\ NormalPlayed /\ ev.played.type = "number" /\ ev.played.value = "0"
    /\ ev.rotation.did /\ ~Terminal
    /\ \E k \in 1..Len(players) :
          players[k].hand = <<>> /\ players[k].id # ev.actor

\* a last card was played as a stack: the player holds no card and the
\* game goes on
C38_StackedLastCard ==
    /\ TurnTaken /\ error = "None" /\ ev.kind = "stack" /\ ~Terminal
    /\ ActorInRing /\ ActorHand = <<>>

-----------------------------------------------------------------------------
(* The training driver *)

\* C39: a game with a learning agent runs under train_rl_agent, and a turn
\* of the agent leaves the engine as play_turn would: a played card's
\* effects are dispatched once, the turn counter has counted the turn, and
\* unless the game is over or a card of the agent moved the pointer back,
\* another player is to act.
C39_AgentTurnAsPlayTurn ==
    /\ AgentInRing => error = "None"
    /\ (TurnTaken /\ ActorIsAgent /\ error = "None") =>
          /\ turn_count >= 1
          /\ ev.played # NoCard => ev.effects = 1
          /\ (~game_over /\ ev.played = NoCard /\ Len(players) > 1)
                => CurrentPlayer.id # ev.actor

\* the engine was built with a learning agent in the ring: the deal stopped
\* with an AttributeError and the driver never reaches a turn of the agent
C39_DriverStopsAtDeal ==
    /\ variant = "rl" /\ AgentInRing
    /\ ~TurnTaken /\ turn_count = 0
    /\ error = "AttributeError"

=============================================================================
